---------------------------- MODULE Spec2Model ----------------------------
(***************************************************************************)
(* Resume formatter: the grammar-issue review session of ResumePreview     *)
(* (accept / ignore / undo over the record and the change log) and the     *)
(* key / model rotation layer of geminiService (withModelFallback).        *)
(*                                                                         *)
(* A text is a sequence of one-character strings.  A record is the map of  *)
(* its string-valued leaves: a path is in DOMAIN of the record exactly     *)
(* when lodash _.get(record, path) yields a string.                        *)
(***************************************************************************)
EXTENDS Integers, Sequences, FiniteSets, TLC

VARIABLES
    data,            \* ResumePreview prop `data` (App state resumeData)
    issues,          \* ResumePreview state `issues`
    changeLog,       \* ResumePreview state `changeLog`
    isChecking,      \* ResumePreview state `isChecking`
    pending,         \* the analyzeGrammar promise in flight, and the last alert
    checks,          \* history: number of grammar checks started so far
    now,             \* the last reading of Date.now()
    held,            \* the record object that was the prop `data` when the last
                     \* handler was called, as it reads after the handler
    hist,            \* history: the last handler event since the issue list was
                     \* installed, and the accept before it when it is an undo
    env,             \* import.meta.env / process.env credentials
    currentKeyIndex, \* geminiService module variable
    call,            \* per call slot: the frame of withModelFallback
    started,         \* history: number of calls started so far
    rateLimited,     \* history: number of rate-limit failures so far
    appState,        \* App state `appState`
    resumeData,      \* App state `resumeData`: <<>> for null, else <<record>>
    errorMsg,        \* App state `errorMsg`
    upload,          \* the handleFileChange in progress, and history of uploads
    props,           \* what a renderer is given: the props of a component, the
                     \* record of an exporter
    rendered,        \* what the renderers made of props
    orphans          \* history: the analyzeGrammar promises still in flight
                     \* whose ResumePreview instance was unmounted

viewVars == <<props, rendered, orphans>>

sessionVars ==
    <<data, issues, changeLog, isChecking, pending, checks, now, held, hist,
      props, rendered, orphans>>

rotationVars == <<env, currentKeyIndex, call, started, rateLimited>>

uploadVars == <<appState, resumeData, errorMsg, upload>>

vars == <<data, issues, changeLog, isChecking, pending, checks, now, held, hist,
          env, currentKeyIndex, call, started, rateLimited,
          appState, resumeData, errorMsg, upload, props, rendered, orphans>>

---------------------------------------------------------------------------
(* Bounds of the model.                                                    *)

MaxFieldLen == 2

MaxErrLen == 1

MaxSugLen == 2

MaxIssues == 2

MaxChecks == 1

MaxTime == 1

MaxCalls == 2

MaxUploads == 2

\* The longest line and the longest dates text cleaned on their own.
MaxTextLen == 4

Alphabet == {"a", "b", "$"}

---------------------------------------------------------------------------
(* Texts.                                                                  *)

TextsUpTo(n) == UNION {[1..k -> Alphabet] : k \in 0..n}

SubText(t, from, to) == [k \in 1..(to - from + 1) |-> t[from + k - 1]]

OccursAt(t, e, p) ==
    /\ p >= 1
    /\ p + Len(e) - 1 <= Len(t)
    /\ \A k \in 1..Len(e) : t[p + k - 1] = e[k]

\* String.prototype.indexOf: the first position (1-based), 0 when absent (JS -1).
IndexOf(t, e) ==
    IF \E p \in 1..(Len(t) + 1) : OccursAt(t, e, p)
    THEN CHOOSE p \in 1..(Len(t) + 1) :
            /\ OccursAt(t, e, p)
            /\ \A q \in 1..(p - 1) : ~OccursAt(t, e, q)
    ELSE 0

\* ECMAScript GetSubstitution for a string pattern (no captures): in the
\* replacement text "$$" stands for "$", "$&" for the matched text, "$`" for
\* the text before the match and "$'" for the text after it; every other "$"
\* is literal.
RECURSIVE GetSubstitution(_, _, _, _, _)
GetSubstitution(matched, before, after, repl, k) ==
    IF k > Len(repl) THEN <<>>
    ELSE IF repl[k] = "$" /\ k < Len(repl) /\ repl[k + 1] = "$"
         THEN <<"$">> \o GetSubstitution(matched, before, after, repl, k + 2)
    ELSE IF repl[k] = "$" /\ k < Len(repl) /\ repl[k + 1] = "&"
         THEN matched \o GetSubstitution(matched, before, after, repl, k + 2)
    ELSE IF repl[k] = "$" /\ k < Len(repl) /\ repl[k + 1] = "`"
         THEN before \o GetSubstitution(matched, before, after, repl, k + 2)
    ELSE IF repl[k] = "$" /\ k < Len(repl) /\ repl[k + 1] = "'"
         THEN after \o GetSubstitution(matched, before, after, repl, k + 2)
    ELSE <<repl[k]>> \o GetSubstitution(matched, before, after, repl, k + 1)

\* String.prototype.replace(pattern: string, replacement: string): only the
\* first occurrence of the pattern is replaced; no occurrence, no change.
Replace(t, pattern, repl) ==
    LET p == IndexOf(t, pattern) IN
    IF p = 0 THEN t
    ELSE LET before == SubText(t, 1, p - 1)
             after  == SubText(t, p + Len(pattern), Len(t))
         IN before \o GetSubstitution(pattern, before, after, repl, 1) \o after

---------------------------------------------------------------------------
(* The review session: ResumePreview and GrammarHighlighter.               *)

\* Paths of the record that hold a string (two summary lines), and the paths
\* an issue may carry: those and "summary", which resolves to the array.
StringPaths == {"summary.0", "summary.1"}

IssuePaths == StringPaths \cup {"summary"}

\* typeof _.get(newData, path) === 'string'
IsString(rec, path) == path \in DOMAIN rec

\* _.set(newData, path, newValue) on the deep clone of the record
Set(rec, path, value) == [rec EXCEPT ![path] = value]

\* GrammarIssue; `original` and `type` are read by no handler and left out.
GrammarIssue(id, path, errorText, suggestions, reason) ==
    [id |-> id, path |-> path, errorText |-> errorText,
     suggestions |-> suggestions, reason |-> reason]

\* ChangeLogItem
ChangeLogItem(id, timestamp, path, original, new, reason) ==
    [id |-> id, timestamp |-> timestamp, path |-> path,
     original |-> original, new |-> new, reason |-> reason]

\* The initial changeLog: one "Extraction" row per data.extractionChanges entry.
ExtractionLog(n, t) ==
    [k \in 1..n |->
        ChangeLogItem(<<"x", k>>, t, "Extraction", <<"REMOVAL">>, <<"desc">>, "pii")]

\* How many entries data.extractionChanges may hold at the mount.
ExtractionCounts == {0, 2}

NoIssue == GrammarIssue("", "", <<>>, <<>>, "")

NoLog == ChangeLogItem(<<"x", 0>>, 0, "", <<>>, <<>>, "")

\* No analyzeGrammar promise in flight; `alert` is the message of the alert()
\* that the last grammar check raised, <<>> when it raised none.
Settled(alert) == [active |-> FALSE, data |-> <<>>, alert |-> alert]

NoCall == Settled(<<>>)

NoIssuesAlert == <<"No grammar issues found!">>

FailedAlert == <<"Failed to check grammar. Please try again.">>

\* One handler event, with the state the handler started from.
Event(op, issue, log) ==
    [op |-> op, issue |-> issue, log |-> log,
     data |-> data, issues |-> issues, changeLog |-> changeLog]

\* The event before is kept only when an undo follows an accept.
Record(ev) ==
    hist' = IF hist # <<>> /\ ev.op = "undo" /\ hist[1].op = "accept"
            THEN <<ev, hist[1]>> ELSE <<ev>>

\* The last handler event was a call of `op`.
LastIs(op) == hist # <<>> /\ hist[1].op = op

\* handleAcceptIssue(issue), when Date.now() reads t
\* A variant of handleAcceptIssue that writes into the record it was given
\* instead of a copy.
handleAcceptIssueInPlace(issue, t) ==
    /\ IF /\ IsString(data, issue.path)
          /\ issue.errorText # <<>>
          /\ Len(issue.suggestions) > 0
       THEN LET currentValue == data[issue.path]
                selectedSuggestion == issue.suggestions[1]
                newValue == Replace(currentValue, issue.errorText, selectedSuggestion)
                newLogItem == ChangeLogItem(<<"t", t>>, t, issue.path,
                                  issue.errorText, selectedSuggestion, issue.reason)
            IN /\ data' = Set(data, issue.path, newValue)
               /\ held' = Set(data, issue.path, newValue)
               /\ changeLog' = <<newLogItem>> \o changeLog
       ELSE /\ data' = data
            /\ held' = data
            /\ changeLog' = changeLog
    /\ issues' = SelectSeq(issues, LAMBDA i : i.id # issue.id)

\* handleAcceptIssue(issue), when Date.now() reads t: newData is a deep copy
\* (JSON.parse(JSON.stringify(data))), so the record given is not written.
handleAcceptIssue(issue, t) ==
    /\ IF /\ IsString(data, issue.path)
          /\ issue.errorText # <<>>
          /\ Len(issue.suggestions) > 0
       THEN LET currentValue == data[issue.path]
                selectedSuggestion == issue.suggestions[1]
                newValue == Replace(currentValue, issue.errorText, selectedSuggestion)
                newLogItem == ChangeLogItem(<<"t", t>>, t, issue.path,
                                  issue.errorText, selectedSuggestion, issue.reason)
            IN /\ data' = Set(data, issue.path, newValue)
               /\ changeLog' = <<newLogItem>> \o changeLog
       ELSE /\ data' = data
            /\ changeLog' = changeLog
    /\ held' = data
    /\ issues' = SelectSeq(issues, LAMBDA i : i.id # issue.id)

\* A variant of handleIgnoreIssue that drops the issue at the head of the list
\* instead of the one addressed.
handleIgnoreIssueHead(issue) ==
    /\ issues' = Tail(issues)
    /\ UNCHANGED <<data, changeLog>>

\* handleIgnoreIssue(issue)
handleIgnoreIssue(issue) ==
    /\ issues' = SelectSeq(issues, LAMBDA i : i.id # issue.id)
    /\ UNCHANGED <<data, changeLog>>

\* A variant of handleUndoChange without the sentinel guard and with the
\* removal of the entry outside the string test.
handleUndoChangeUnguarded(log) ==
    /\ held' = data
    /\ IF IsString(data, log.path)
       THEN data' = Set(data, log.path, Replace(data[log.path], log.new, log.original))
       ELSE data' = data
    /\ changeLog' = SelectSeq(changeLog, LAMBDA item : item.id # log.id)

\* handleUndoChange(log)
handleUndoChange(log) ==
    /\ held' = data
    /\ IF log.path = "Extraction" THEN UNCHANGED <<data, changeLog>>
       ELSE IF IsString(data, log.path)
       THEN /\ data' = Set(data, log.path,
                            Replace(data[log.path], log.new, log.original))
            /\ changeLog' = SelectSeq(changeLog, LAMBDA item : item.id # log.id)
       ELSE UNCHANGED <<data, changeLog>>

\* A suggestion button of the popover of an open issue:
\* onAccept({ ...issue, suggestions: [suggestion] })
onAccept(n, sIdx, t) ==
    LET issue == issues[n]
        suggestion == issue.suggestions[sIdx]
    IN handleAcceptIssue([issue EXCEPT !.suggestions = <<suggestion>>], t)

\* The clock does not run backwards: Date.now() reads t, not before `now`.
Accept ==
    \E n \in DOMAIN issues : \E sIdx \in DOMAIN issues[n].suggestions :
        \E t \in now..MaxTime :
            /\ onAccept(n, sIdx, t)
            /\ now' = t
            /\ Record(Event("accept",
                   [issues[n] EXCEPT !.suggestions = <<issues[n].suggestions[sIdx]>>],
                   NoLog))
            /\ UNCHANGED <<isChecking, pending, checks, rotationVars, uploadVars, viewVars>>

\* The Ignore button of the popover: onIgnore(issue)
Ignore ==
    \E n \in DOMAIN issues :
        /\ handleIgnoreIssue(issues[n])
        /\ Record(Event("ignore", issues[n], NoLog))
        /\ UNCHANGED <<isChecking, pending, checks, now, held, rotationVars, uploadVars, viewVars>>

\* A variant of Undo that puts the issue of the accept before it back on the
\* open list.
UndoRestoresIssue ==
    \E k \in DOMAIN changeLog :
        /\ handleUndoChange(changeLog[k])
        /\ Record(Event("undo", NoIssue, changeLog[k]))
        /\ issues' = IF LastIs("accept") THEN <<hist[1].issue>> \o issues ELSE issues
        /\ UNCHANGED <<isChecking, pending, checks, now, rotationVars, uploadVars, viewVars>>

\* handleUndoChange on a row of the modification log
Undo ==
    \E k \in DOMAIN changeLog :
        /\ handleUndoChange(changeLog[k])
        /\ Record(Event("undo", NoIssue, changeLog[k]))
        /\ UNCHANGED <<issues, isChecking, pending, checks, now, rotationVars, uploadVars, viewVars>>

\* handleCheckGrammar up to the await: the button is disabled while isChecking.
handleCheckGrammar ==
    /\ ~isChecking
    /\ checks < MaxChecks
    /\ isChecking' = TRUE
    /\ pending' = [active |-> TRUE, data |-> data, alert |-> <<>>]
    /\ checks' = checks + 1
    /\ UNCHANGED <<data, issues, changeLog, now, held, hist, rotationVars, uploadVars, viewVars>>

\* analyzeGrammar resolves: setIssues(foundIssues), then finally.
CheckGrammarResolves(found) ==
    /\ pending.active
    /\ issues' = found
    /\ isChecking' = FALSE
    /\ pending' = Settled(IF Len(found) = 0 THEN NoIssuesAlert ELSE <<>>)
    /\ hist' = <<>>
    /\ UNCHANGED <<data, changeLog, checks, now, held, rotationVars, uploadVars, viewVars>>

\* analyzeGrammar rejects: catch, then finally.
CheckGrammarFails ==
    /\ pending.active
    /\ isChecking' = FALSE
    /\ pending' = Settled(FailedAlert)
    /\ UNCHANGED <<data, issues, changeLog, checks, now, held, hist, rotationVars,
                   uploadVars, viewVars>>

\* A variant of analyzeGrammar that throws when the model called no tool, as
\* extractResumeData does.
analyzeGrammarStrict(response) ==
    IF /\ Len(response.functionCalls) > 0
       /\ response.functionCalls[1].name = "save_grammar_issues"
    THEN [ok |-> TRUE,
          issues |-> IF response.functionCalls[1].args.present
                     THEN response.functionCalls[1].args.issues ELSE <<>>]
    ELSE [ok |-> FALSE, issues |-> <<>>]

\* The operation of analyzeGrammar on the response of the model: the list it
\* returns; it throws on no response.
analyzeGrammar(response) ==
    IF /\ Len(response.functionCalls) > 0
       /\ response.functionCalls[1].name = "save_grammar_issues"
    THEN [ok |-> TRUE,
          issues |-> IF response.functionCalls[1].args.present
                     THEN response.functionCalls[1].args.issues ELSE <<>>]
    ELSE [ok |-> TRUE, issues |-> <<>>]

\* await analyzeGrammar(data, selectedFormat) when the model responded
GrammarResponds(response) ==
    IF analyzeGrammar(response).ok
    THEN CheckGrammarResolves(analyzeGrammar(response).issues)
    ELSE CheckGrammarFails

---------------------------------------------------------------------------
(* Inputs of the review session.                                           *)

\* The k-th issue of a response of the model: issues on both summary lines
\* and on "summary" (no string), with an errorText that may or may not occur
\* in the field and three suggestions; the third issue repeats the id of the
\* first.
ResponseIssue(k) ==
    GrammarIssue(IF k % 3 = 0 THEN "i1" ELSE IF k % 3 = 1 THEN "i1" ELSE "i2",
                 IF k % 3 = 0 THEN "summary" ELSE IF k % 3 = 1 THEN "summary.0"
                                                  ELSE "summary.1",
                 <<"a">>, << <<"b">>, <<"a", "a">>, <<>> >>, "why")

\* The responses of analyzeGrammar: no issue, or the first k ones.
Responses == {[k \in 1..n |-> ResponseIssue(k)] : n \in 0..MaxIssues}

\* The responses of the model to a grammar request: no function call, a call
\* of another function, a save_grammar_issues call without `issues`, or one
\* with a list of issues.
GrammarResponses ==
    {[functionCalls |-> <<>>],
     [functionCalls |-> <<[name |-> "other", args |-> [present |-> FALSE, issues |-> <<>>]]>>],
     [functionCalls |-> <<[name |-> "save_grammar_issues",
                           args |-> [present |-> FALSE, issues |-> <<>>]]>>]}
    \cup {[functionCalls |-> <<[name |-> "save_grammar_issues",
                                args |-> [present |-> TRUE, issues |-> found]]>>] :
             found \in Responses}

SessionRecords ==
    {[p \in StringPaths |-> IF p = "summary.0" THEN t ELSE <<"b", "a">>] :
        t \in {<<"a", "b">>, <<"b", "b">>}}

\* The three suggestions of an issue: one free text at any of the positions.
SugLists(s) ==
    {<<s, <<"a">>, <<"b", "b">> >>, << <<"a">>, s, <<"b", "b">> >>,
     << <<"a">>, <<"b", "b">>, s>>}

EditIssues ==
    {GrammarIssue("i1", path, e, sl, "why") :
        path \in IssuePaths,
        e \in TextsUpTo(MaxErrLen),
        sl \in UNION {SugLists(s) : s \in TextsUpTo(MaxSugLen)}}

EditRecords ==
    {[p \in StringPaths |-> IF p = "summary.0" THEN t ELSE <<"b", "a">>] :
        t \in TextsUpTo(MaxFieldLen)}

---------------------------------------------------------------------------
(* Text clean-up of geminiService: cleanText and normalizeDates.  A character *)
(* outside ASCII is written by its code point, "u2022" for the bullet.        *)

\* \s of the regular expressions, String.prototype.trim
Whitespace == {" ", "\t"}

\* [\s\u2022\u00b7\-\*\u25c6\u25a0\u25cf\|] of cleanText
BulletClass == Whitespace \cup {"u2022", "u00b7", "-", "*", "u25c6", "u25a0", "u25cf", "|"}

\* [\u2013\u2014\-] of normalizeDates
DashClass == {"u2013", "u2014", "-"}

\* The first position at or after k of t that holds no character of class,
\* Len(t) + 1 when there is none.
RECURSIVE SkipClass(_, _, _)
SkipClass(t, k, class) ==
    IF k <= Len(t) /\ t[k] \in class THEN SkipClass(t, k + 1, class) ELSE k

\* The last position at or before k of t that holds no whitespace, 0 when
\* there is none.
RECURSIVE SkipBack(_, _)
SkipBack(t, k) == IF k >= 1 /\ t[k] \in Whitespace THEN SkipBack(t, k - 1) ELSE k

\* String.prototype.trim
Trim(t) == SubSeq(t, SkipClass(t, 1, Whitespace), SkipBack(t, Len(t)))

\* cleanText with a pattern that takes one leading character, not the run.
cleanTextOnce(text) ==
    IF text = <<>> THEN <<>>
    ELSE Trim(IF text[1] \in BulletClass THEN Tail(text) ELSE text)

\* cleanText(text)
cleanText(text) ==
    IF text = <<>> THEN <<>>
    ELSE Trim(SubSeq(text, SkipClass(text, 1, BulletClass), Len(text)))

\* The end of the match of /\s+to\s+/i that starts at k, 0 when none does:
\* the position after the match.
MatchTo(t, k) ==
    LET j == SkipClass(t, k, Whitespace)
    IN IF /\ j > k
          /\ j + 2 <= Len(t)
          /\ t[j] \in {"t", "T"}
          /\ t[j + 1] \in {"o", "O"}
          /\ t[j + 2] \in Whitespace
       THEN SkipClass(t, j + 2, Whitespace)
       ELSE 0

\* The end of the match of /\s*[\u2013\u2014\-]\s*/ that starts at k, 0 when
\* none does.
MatchDash(t, k) ==
    LET j == SkipClass(t, k, Whitespace)
    IN IF j <= Len(t) /\ t[j] \in DashClass
       THEN SkipClass(t, j + 1, Whitespace)
       ELSE 0

\* .replace(/\s+to\s+/gi, " - ") from position k on
RECURSIVE ReplaceTo(_, _)
ReplaceTo(t, k) ==
    IF k > Len(t) THEN <<>>
    ELSE IF MatchTo(t, k) # 0 THEN <<" ", "-", " ">> \o ReplaceTo(t, MatchTo(t, k))
    ELSE <<t[k]>> \o ReplaceTo(t, k + 1)

\* .replace(/\s*[\u2013\u2014\-]\s*/g, " - ") from position k on
RECURSIVE ReplaceDash(_, _)
ReplaceDash(t, k) ==
    IF k > Len(t) THEN <<>>
    ELSE IF MatchDash(t, k) # 0 THEN <<" ", "-", " ">> \o ReplaceDash(t, MatchDash(t, k))
    ELSE <<t[k]>> \o ReplaceDash(t, k + 1)

\* normalizeDates(dateStr)
normalizeDates(dateStr) ==
    IF dateStr = <<>> THEN <<>>
    ELSE Trim(ReplaceDash(ReplaceTo(dateStr, 1), 1))

---------------------------------------------------------------------------
(* The key / model rotation layer: geminiService.withModelFallback.        *)

Slots == {1, 2}

FALLBACK_MODELS ==
    <<"gemini-3-flash-preview", "gemini-3.1-pro-preview", "gemini-flash-latest">>

maxAttempts == 3

OperationNames == {"extractResumeData", "analyzeGrammar", "checkSpelling"}

\* An error: its `status` property and the words of its toString().
Error(status, message) == [status |-> status, message |-> message]

NoError == Error("none", <<>>)

ConfigError == Error("none", <<"No API Keys found">>)

ExhaustedError == Error("none", <<"API Rate Limit Exceeded">>)

\* What an operation may reject with.
OperationErrors ==
    {Error("429", <<"Too Many Requests">>),
     Error("RESOURCE_EXHAUSTED", <<"quota">>),
     Error("none", <<"got", "429">>),
     Error("none", <<"Quota exceeded">>),
     Error("none", <<"RESOURCE_EXHAUSTED">>),
     Error("500", <<"Internal">>),
     Error("none", <<"The AI model did not trigger the extraction tool correctly.">>)}

\* Of these, the rate-limit signals (HTTP 429, quota exhausted).
RateLimitSignals ==
    {Error("429", <<"Too Many Requests">>),
     Error("RESOURCE_EXHAUSTED", <<"quota">>),
     Error("none", <<"got", "429">>),
     Error("none", <<"Quota exceeded">>),
     Error("none", <<"RESOURCE_EXHAUSTED">>)}

\* A variant of isRateLimit that takes every error for a rate-limit error.
isRateLimitAlways(error) == error.status = error.status

\* errorString.includes(needle)
Includes(message, needle) == \E k \in DOMAIN message : message[k] = needle

isRateLimit(error) ==
    \/ error.status = "429"
    \/ error.status = "RESOURCE_EXHAUSTED"
    \/ Includes(error.message, "429")
    \/ Includes(error.message, "Quota exceeded")
    \/ Includes(error.message, "RESOURCE_EXHAUSTED")

\* A variant of getKeyPool without filter(Boolean).
getKeyPoolUnfiltered ==
    IF env.process # "" /\ SelectSeq(env.vite, LAMBDA k : k # "") = <<>>
    THEN <<env.process>> ELSE env.vite

\* getKeyPool(): the configured VITE keys in order, else the process.env key.
getKeyPool ==
    LET keys == SelectSeq(env.vite, LAMBDA k : k # "") IN
    IF Len(keys) = 0 /\ env.process # "" THEN <<env.process>> ELSE keys

\* getNextApiKey() when currentKeyIndex is `index`: reads the cursor, does not
\* move it.
getNextApiKey(index) ==
    LET pool == getKeyPool IN
    IF Len(pool) = 0 THEN "" ELSE pool[(index % Len(pool)) + 1]

IdleFrame ==
    [pc |-> "idle", modelId |-> 0, i |-> 0, totalAttempts |-> 0, apiKey |-> "",
     thrown |-> NoError, startIndex |-> 0, attempts |-> <<>>, signals |-> 0,
     result |-> <<>>]

\* A variant of NextAttempt without the budget of maxAttempts.
RECURSIVE NextAttemptNoBudget(_, _, _, _)
NextAttemptNoBudget(modelId, i, totalAttempts, poolLength) ==
    IF modelId > Len(FALLBACK_MODELS) THEN [modelId |-> 0, i |-> 0]
    ELSE IF i < poolLength THEN [modelId |-> modelId, i |-> i]
    ELSE NextAttemptNoBudget(modelId + 1, 0, totalAttempts, poolLength)

\* The two for loops from the head of the inner one at (modelId, i), after
\* totalAttempts failures: the position of the next attempt, or modelId 0 when
\* the loops are left without one.  modelId counts from 1, i from 0.
RECURSIVE NextAttempt(_, _, _, _)
NextAttempt(modelId, i, totalAttempts, poolLength) ==
    IF modelId > Len(FALLBACK_MODELS) THEN [modelId |-> 0, i |-> 0]
    ELSE IF i < poolLength /\ totalAttempts < maxAttempts
         THEN [modelId |-> modelId, i |-> i]
    ELSE IF totalAttempts >= maxAttempts THEN [modelId |-> 0, i |-> 0]
    ELSE NextAttempt(modelId + 1, 0, totalAttempts, poolLength)

\* The frame after the loops were entered at (modelId, i): either the operation
\* is invoked with getNextApiKey() as read at `index`, or the exhaustion error
\* is thrown.
Proceed(frame, modelId, i, index) ==
    LET next == NextAttempt(modelId, i, frame.totalAttempts, Len(getKeyPool))
        key  == getNextApiKey(index)
    IN IF next.modelId = 0
       THEN [frame EXCEPT !.pc = "threw", !.thrown = ExhaustedError]
       ELSE [frame EXCEPT !.pc = "awaiting", !.modelId = next.modelId, !.i = next.i,
                          !.apiKey = key,
                          !.attempts = Append(@, [modelId |-> next.modelId,
                                                   apiKey |-> key, index |-> index])]

\* A variant of withModelFallback that starts every call at the first key.
withModelFallbackResets(c, operationName) ==
    /\ call[c].pc # "awaiting"
    /\ started < MaxCalls
    /\ started' = started + 1
    /\ operationName \in OperationNames
    /\ currentKeyIndex' = 0
    /\ LET frame == [IdleFrame EXCEPT !.startIndex = currentKeyIndex]
       IN IF Len(getKeyPool) = 0
          THEN call' = [call EXCEPT ![c] =
                           [frame EXCEPT !.pc = "threw", !.thrown = ConfigError]]
          ELSE call' = [call EXCEPT ![c] = Proceed(frame, 1, 0, 0)]
    /\ UNCHANGED <<env, rateLimited, sessionVars>>

\* withModelFallback(operation, operationName) up to its first await;
\* operationName and lastError are only logged and are not kept.
withModelFallback(c, operationName) ==
    /\ call[c].pc # "awaiting"
    /\ started < MaxCalls
    /\ started' = started + 1
    /\ operationName \in OperationNames
    /\ LET frame == [IdleFrame EXCEPT !.startIndex = currentKeyIndex]
       IN IF Len(getKeyPool) = 0
          THEN call' = [call EXCEPT ![c] =
                           [frame EXCEPT !.pc = "threw", !.thrown = ConfigError]]
          ELSE call' = [call EXCEPT ![c] = Proceed(frame, 1, 0, currentKeyIndex)]
    /\ UNCHANGED <<env, currentKeyIndex, rateLimited, sessionVars>>

\* return await operation(modelId, apiKey): the operation resolves.
OperationResolves(c) ==
    /\ call[c].pc = "awaiting"
    /\ call' = [call EXCEPT ![c].pc = "returned"]
    /\ UNCHANGED <<env, currentKeyIndex, started, rateLimited, sessionVars>>

\* The history of a call: one more of its attempts met a rate-limit signal.
Signalled(frame, error) ==
    [frame EXCEPT !.signals = IF error \in RateLimitSignals THEN @ + 1 ELSE @]

\* catch (error): a rate-limit error rotates the key and goes on, any other
\* error is thrown again.
OperationRejects(c, error) ==
    /\ call[c].pc = "awaiting"
    /\ IF isRateLimit(error)
       THEN /\ currentKeyIndex' = currentKeyIndex + 1
            /\ call' = [call EXCEPT ![c] =
                   Proceed([Signalled(call[c], error) EXCEPT !.totalAttempts = @ + 1],
                           call[c].modelId, call[c].i + 1, currentKeyIndex + 1)]
       ELSE /\ call' = [call EXCEPT ![c] =
                   [Signalled(call[c], error) EXCEPT !.pc = "threw", !.thrown = error]]
            /\ UNCHANGED currentKeyIndex
    /\ rateLimited' = IF error \in RateLimitSignals THEN rateLimited + 1 ELSE rateLimited
    /\ UNCHANGED <<env, started, sessionVars>>

---------------------------------------------------------------------------
(* GrammarHighlighter: the issues it highlights in one rendered field.  A    *)
(* path is the sequence of its characters.                                   *)

Digits == {"0", "1"}

\* The end of the match of /\[(\d+)\]/ that starts at k, 0 when none does:
\* the position of the closing bracket.
MatchIndex(p, k) ==
    LET j == SkipClass(p, k + 1, Digits)
    IN IF p[k] = "[" /\ j > k + 1 /\ j <= Len(p) /\ p[j] = "]" THEN j ELSE 0

\* p.replace(/\[(\d+)\]/g, '.$1') from position k on
RECURSIVE normalizePathFrom(_, _)
normalizePathFrom(p, k) ==
    IF k > Len(p) THEN <<>>
    ELSE IF MatchIndex(p, k) # 0
    THEN <<".">> \o SubSeq(p, k + 1, MatchIndex(p, k) - 1)
                \o normalizePathFrom(p, MatchIndex(p, k) + 1)
    ELSE <<p[k]>> \o normalizePathFrom(p, k + 1)

normalizePath(p) == normalizePathFrom(p, 1)

\* A variant of fieldIssues that compares the paths as they are written.
fieldIssuesRaw(list, path) == SelectSeq(list, LAMBDA i : i.path = path)

\* issues.filter(i => normalizePath(i.path) === normalizePath(path))
fieldIssues(list, path) ==
    SelectSeq(list, LAMBDA i : normalizePath(i.path) = normalizePath(path))

\* text.indexOf(errorText), counted from 0, -1 when there is none
indexOf(text, errorText) == IndexOf(text, errorText) - 1

\* Array.prototype.sort((a, b) => a.index - b.index), a stable sort: element e
\* is put behind the elements of the sorted list that do not come after it.
Insert(sorted, e) ==
    LET n == Cardinality({k \in DOMAIN sorted : sorted[k].index <= e.index})
    IN SubSeq(sorted, 1, n) \o <<e>> \o SubSeq(sorted, n + 1, Len(sorted))

RECURSIVE SortByIndex(_)
SortByIndex(list) ==
    IF list = <<>> THEN <<>>
    ELSE Insert(SortByIndex(SubSeq(list, 1, Len(list) - 1)), list[Len(list)])

\* sortedIssues: the issues of the field with the offset of their errorText in
\* the text, those not found left out, by offset.
sortedIssues(text, path, list) ==
    LET found == fieldIssues(list, path)
        indexed == [k \in DOMAIN found |->
                       [issue |-> found[k], index |-> indexOf(text, found[k].errorText)]]
    IN SortByIndex(SelectSeq(indexed, LAMBDA i : i.index # -1))

\* The render of GrammarHighlighter: one highlighted span per sorted issue.
GrammarHighlighter ==
    /\ rendered = <<>>
    /\ rendered' = <<sortedIssues(props.text, props.path, props.issues)>>
    /\ UNCHANGED <<props, orphans, data, issues, changeLog, isChecking, pending, checks, now,
                   held, hist, rotationVars, uploadVars>>

---------------------------------------------------------------------------
(* The upload pipeline: App.handleFileChange and extractResumeData.  An      *)
(* optional list is [present, lines], an optional string [present, text].    *)

Lines(present, lines) == [present |-> present, lines |-> lines]

Dates(present, text) == [present |-> present, text |-> text]

ExperienceItem(description, dates) == [description |-> description, dates |-> dates]

EducationItem(details, dates) == [details |-> details, dates |-> dates]

CustomSection(items) == [items |-> items]

\* An optional list of entries of one section.
Section(present, entries) == [present |-> present, entries |-> entries]

\* The arguments of a save_resume_data call.  contactInfo is "absent", "null"
\* or "object"; summary is "absent", a "string" (held as its single line) or a
\* "list".
ResumeData(contactInfo, summary, experience, internships, education, customSections) ==
    [contactInfo |-> contactInfo, summary |-> summary, experience |-> experience,
     internships |-> internships, education |-> education,
     customSections |-> customSections]

\* description.map(cleanText)
MapCleanText(lines) == [k \in DOMAIN lines |-> cleanText(lines[k])]

\* if (exp.description) exp.description = exp.description.map(cleanText)
CleanLines(l) == IF l.present THEN Lines(TRUE, MapCleanText(l.lines)) ELSE l

\* if (exp.dates) exp.dates = normalizeDates(exp.dates)
CleanDates(d) ==
    IF d.present /\ d.text # <<>> THEN Dates(TRUE, normalizeDates(d.text)) ELSE d

\* if (data.summary) { if (typeof data.summary === 'string') ...; .map(cleanText) }
CleanSummary(summary) ==
    IF summary.kind = "absent" THEN summary
    ELSE IF summary.kind = "string" /\ summary.lines[1] = <<>> THEN summary
    ELSE [kind |-> "list", lines |-> MapCleanText(summary.lines)]

\* The body of extractResumeData after the save_resume_data call was found.
PostProcess(args) ==
    [contactInfo |-> IF args.contactInfo \in {"absent", "null"} THEN "object"
                     ELSE args.contactInfo,
     summary |-> CleanSummary(args.summary),
     experience |-> [args.experience EXCEPT !.entries =
         [k \in DOMAIN @ |-> ExperienceItem(CleanLines(@[k].description),
                                             CleanDates(@[k].dates))]],
     internships |-> [args.internships EXCEPT !.entries =
         [k \in DOMAIN @ |-> ExperienceItem(CleanLines(@[k].description),
                                             CleanDates(@[k].dates))]],
     education |-> [args.education EXCEPT !.entries =
         [k \in DOMAIN @ |-> EducationItem(CleanLines(@[k].details),
                                            CleanDates(@[k].dates))]],
     customSections |-> [args.customSections EXCEPT !.entries =
         [k \in DOMAIN @ |-> CustomSection(CleanLines(@[k].items))]]]

ToolError ==
    Error("none", <<"The AI model did not trigger the extraction tool correctly.">>)

NoTextError == Error("none", <<"Could not extract text from this Word document.">>)

UnsupportedError == Error("none", <<"Unsupported file format.">>)

\* A variant of extractResumeData that returns an empty record when the model
\* called no tool.
extractResumeDataLenient(response) ==
    IF /\ Len(response.functionCalls) > 0
       /\ response.functionCalls[1].name = "save_resume_data"
    THEN [ok |-> TRUE, data |-> PostProcess(response.functionCalls[1].args),
          error |-> NoError]
    ELSE [ok |-> TRUE, data |-> <<>>, error |-> NoError]

\* The operation of extractResumeData on the response of the model: the record
\* it returns, or the error it throws.
extractResumeData(response) ==
    IF /\ Len(response.functionCalls) > 0
       /\ response.functionCalls[1].name = "save_resume_data"
    THEN [ok |-> TRUE, data |-> PostProcess(response.functionCalls[1].args),
          error |-> NoError]
    ELSE [ok |-> FALSE, data |-> <<>>, error |-> ToolError]

\* await operation(modelId, apiKey) of an extraction: the model responded.
ExtractionResponds(c, response) ==
    /\ call[c].pc = "awaiting"
    /\ IF extractResumeData(response).ok
       THEN /\ call' = [call EXCEPT ![c].pc = "returned",
                                    ![c].result = <<extractResumeData(response).data>>]
            /\ UNCHANGED <<env, currentKeyIndex, started, rateLimited, sessionVars>>
       ELSE OperationRejects(c, extractResumeData(response).error)

File(kind, text) == [kind |-> kind, text |-> text]

NoUpload == [active |-> FALSE, file |-> File("none", <<>>), before |-> <<>>,
             started |-> 0, count |-> 0]

\* handleFileChange(file) up to its first await of the model: the file is
\* read, then refused or sent to extractResumeData.
handleFileChange(file) ==
    /\ appState \in {"IDLE", "ERROR"}
    /\ upload.count < MaxUploads
    /\ upload' = [active |-> file.kind \in {"text", "visual"}
                                \/ (file.kind = "docx" /\ Trim(file.text) # <<>>),
                  file |-> file, before |-> resumeData, started |-> started,
                  count |-> upload.count + 1]
    /\ IF file.kind = "docx" /\ Trim(file.text) = <<>>
       THEN /\ appState' = "ERROR"
            /\ errorMsg' = NoTextError.message
            /\ UNCHANGED <<rotationVars, sessionVars>>
       ELSE IF file.kind \in {"docx", "text", "visual"}
       THEN /\ appState' = "PROCESSING"
            /\ errorMsg' = <<>>
            /\ withModelFallback(1, "extractResumeData")
       ELSE /\ appState' = "ERROR"
            /\ errorMsg' = UnsupportedError.message
            /\ UNCHANGED <<rotationVars, sessionVars>>
    /\ UNCHANGED resumeData

\* handleFileChange after await extractResumeData: the record is committed.
ExtractionReturns ==
    /\ upload.active
    /\ call[1].pc = "returned"
    /\ resumeData' = call[1].result
    /\ appState' = "REVIEW"
    /\ upload' = [upload EXCEPT !.active = FALSE]
    /\ UNCHANGED <<errorMsg, rotationVars, sessionVars>>

\* A variant of ExtractionThrows that commits an empty record.
ExtractionThrowsCommits ==
    /\ upload.active
    /\ call[1].pc = "threw"
    /\ errorMsg' = call[1].thrown.message
    /\ appState' = "ERROR"
    /\ resumeData' = << <<>> >>
    /\ upload' = [upload EXCEPT !.active = FALSE]
    /\ UNCHANGED <<rotationVars, sessionVars>>

\* handleFileChange, catch (err)
ExtractionThrows ==
    /\ upload.active
    /\ call[1].pc = "threw"
    /\ errorMsg' = call[1].thrown.message
    /\ appState' = "ERROR"
    /\ upload' = [upload EXCEPT !.active = FALSE]
    /\ UNCHANGED <<resumeData, rotationVars, sessionVars>>

\* handleReset
handleReset ==
    /\ appState = "REVIEW"
    /\ appState' = "IDLE"
    /\ resumeData' = <<>>
    /\ errorMsg' = <<>>
    /\ UNCHANGED <<upload, rotationVars, sessionVars>>

---------------------------------------------------------------------------
(* Specifications.                                                         *)

\* The credentials a deployment may configure: each of the four VITE
\* variables unset or holding its own key, and the process.env key.
Envs ==
    {[vite |-> [k \in 1..4 |-> IF k \in S THEN <<"k1", "k2", "k3", "k4">>[k] ELSE ""],
      process |-> p] : S \in SUBSET (1..4), p \in {"", "k0"}}

RotationIdle ==
    /\ env = [vite |-> <<"k1", "", "", "">>, process |-> ""]
    /\ currentKeyIndex = 0
    /\ call = [c \in Slots |-> IdleFrame]
    /\ started = 0
    /\ rateLimited = 0

\* The App before the first upload.
UploadIdle ==
    /\ appState = "IDLE"
    /\ resumeData = <<>>
    /\ errorMsg = <<>>
    /\ upload = NoUpload

SessionIdle ==
    /\ data \in {r \in SessionRecords : r["summary.0"] = <<"a", "b">>}
    /\ issues = <<>>
    /\ changeLog = <<>>
    /\ isChecking = FALSE
    /\ pending = NoCall
    /\ checks = 0
    /\ now = 0
    /\ held = data
    /\ hist = <<>>
    /\ props = <<>>
    /\ rendered = <<>>
    /\ orphans = 0

\* The review session from the mount of ResumePreview on an extracted record.
Init ==
    /\ data \in SessionRecords
    /\ issues = <<>>
    /\ \E n \in ExtractionCounts : changeLog = ExtractionLog(n, 0)
    /\ isChecking = FALSE
    /\ pending = NoCall
    /\ checks = 0
    /\ now = 0
    /\ held = data
    /\ hist = <<>>
    /\ props = <<>>
    /\ rendered = <<>>
    /\ orphans = 0
    /\ RotationIdle
    /\ UploadIdle

Next ==
    \/ handleCheckGrammar
    \/ \E response \in GrammarResponses : GrammarResponds(response)
    \/ CheckGrammarFails
    \/ Accept
    \/ Ignore
    \/ Undo

Spec == Init /\ [][Next]_vars

\* The handlers applied to every small record and every small issue: the
\* session right after a grammar check returned one issue.
InitEdit ==
    /\ data \in EditRecords
    /\ \E issue \in EditIssues : issues = <<issue>>
    /\ changeLog = ExtractionLog(1, 0)
    /\ isChecking = FALSE
    /\ pending = NoCall
    /\ checks = 1
    /\ now = 0
    /\ held = data
    /\ hist = <<>>
    /\ props = <<>>
    /\ rendered = <<>>
    /\ orphans = 0
    /\ RotationIdle
    /\ UploadIdle

NextEdit ==
    \/ Accept
    \/ Ignore
    \/ Undo

SpecEdit == InitEdit /\ [][NextEdit]_vars

\* Calls of withModelFallback, overlapping or not, under every configuration.
InitRot ==
    /\ env \in Envs
    /\ currentKeyIndex = 0
    /\ call = [c \in Slots |-> IdleFrame]
    /\ started = 0
    /\ rateLimited = 0
    /\ SessionIdle
    /\ UploadIdle

NextRot ==
    \E c \in Slots :
        \/ /\ \E operationName \in OperationNames : withModelFallback(c, operationName)
           /\ UNCHANGED uploadVars
        \/ OperationResolves(c) /\ UNCHANGED uploadVars
        \/ /\ \E error \in OperationErrors : OperationRejects(c, error)
           /\ UNCHANGED uploadVars

SpecRot == InitRot /\ [][NextRot]_vars

\* The save_resume_data arguments the model may send: either record with any
\* one of its fields replaced by any value of that field.
ModelArgs ==
    LET
        \* Lines as the model may return them, with and without bullet prefixes.
        LineLists ==
            {<<>>,
             << <<"u2022", " ", "a">>, <<"a", " ">> >>,
             << <<" ", "-", "*", "a", "-", "b">>, <<>>, <<"|">> >>}

        DateTexts ==
            {<<>>,
             <<"a", " ", "t", "o", " ", "b">>,
             <<"a", "u2013", "b", " ">>,
             <<"a", " ", " ", "-", "b">>}

        SummaryValues ==
            {[kind |-> "absent", lines |-> <<>>],
             [kind |-> "string", lines |-> << <<>> >>],
             [kind |-> "string", lines |-> << <<"-", " ", "a">> >>]}
            \cup {[kind |-> "list", lines |-> l] : l \in LineLists}

        ExperienceValues ==
            {Section(FALSE, <<>>),
             Section(TRUE, <<ExperienceItem(Lines(FALSE, <<>>), Dates(FALSE, <<>>))>>)}
            \cup {Section(TRUE, <<ExperienceItem(Lines(TRUE, l), Dates(TRUE, d)),
                                  ExperienceItem(Lines(TRUE, <<>>), Dates(TRUE, <<>>))>>) :
                     l \in LineLists \ {<<>>}, d \in DateTexts \ {<<>>}}

        EducationValues ==
            {Section(FALSE, <<>>),
             Section(TRUE, <<EducationItem(Lines(FALSE, <<>>), Dates(TRUE, <<"a", "u2014", "b">>)),
                             EducationItem(Lines(TRUE, << <<"u25cf", "a">> >>), Dates(FALSE, <<>>))>>)}

        CustomValues ==
            {Section(FALSE, <<>>),
             Section(TRUE, <<CustomSection(Lines(TRUE, << <<"u25a0", " ", "a", " ", "|">> >>)),
                             CustomSection(Lines(FALSE, <<>>))>>)}

        InternshipValues ==
            {Section(FALSE, <<>>),
             Section(TRUE, <<ExperienceItem(Lines(TRUE, << <<"*", "a">> >>),
                                            Dates(TRUE, <<"a", " ", "T", "O", " ", "b">>))>>)}

        \* A record with nothing but the required keys, and one with every section.
        BareArgs ==
            ResumeData("absent", [kind |-> "absent", lines |-> <<>>], Section(FALSE, <<>>),
                       Section(FALSE, <<>>), Section(FALSE, <<>>), Section(FALSE, <<>>))

        RichArgs ==
            ResumeData("object",
                       [kind |-> "list", lines |-> << <<"u2022", " ", "a">>, <<"a", " ">> >>],
                       Section(TRUE, <<ExperienceItem(Lines(TRUE, << <<"-", "a">> >>),
                                                      Dates(TRUE, <<"a", "-", "b">>))>>),
                       Section(TRUE, <<ExperienceItem(Lines(TRUE, << <<"*", "a">> >>),
                                                      Dates(TRUE, <<"a", " ", "T", "O", " ", "b">>))>>),
                       Section(TRUE, <<EducationItem(Lines(TRUE, << <<"u25cf", "a">> >>),
                                                     Dates(TRUE, <<"a", "u2014", "b">>))>>),
                       Section(TRUE, <<CustomSection(Lines(TRUE, << <<"|", "a">> >>))>>))
    IN
    UNION {{[base EXCEPT !.contactInfo = c] : c \in {"absent", "null", "object"}}
           \cup {[base EXCEPT !.summary = v] : v \in SummaryValues}
           \cup {[base EXCEPT !.experience = v] : v \in ExperienceValues}
           \cup {[base EXCEPT !.internships = v] : v \in InternshipValues}
           \cup {[base EXCEPT !.education = v] : v \in EducationValues}
           \cup {[base EXCEPT !.customSections = v] : v \in CustomValues} :
           base \in {BareArgs, RichArgs}}

\* The responses of the model to an extraction request: no function call, a
\* call of another function, or a save_resume_data call.
ExtractionResponses ==
    {[functionCalls |-> <<>>],
     [functionCalls |-> <<[name |-> "other", args |-> <<>>]>>]}
    \cup {[functionCalls |-> <<[name |-> "save_resume_data", args |-> a]>>] :
             a \in ModelArgs}

\* The files a user may drop: by the branch of handleFileChange that takes
\* them, with the text that mammoth or file.text() reads.
Files ==
    {File("docx", <<"a">>), File("docx", <<>>), File("docx", <<" ", "\t">>),
     File("text", <<"a">>), File("text", <<>>),
     File("visual", <<>>), File("unsupported", <<>>)}

UploadEnvs ==
    {e \in Envs : e.process = "" /\ e.vite[3] = "" /\ e.vite[4] = ""}

\* The App from its mount: uploads, extraction calls and resets.
InitUpload ==
    /\ env \in UploadEnvs
    /\ currentKeyIndex = 0
    /\ call = [c \in Slots |-> IdleFrame]
    /\ started = 0
    /\ rateLimited = 0
    /\ SessionIdle
    /\ UploadIdle

NextUpload ==
    \/ \E file \in Files : handleFileChange(file)
    \/ /\ \E response \in ExtractionResponses : ExtractionResponds(1, response)
       /\ UNCHANGED uploadVars
    \/ /\ \E error \in OperationErrors : OperationRejects(1, error)
       /\ UNCHANGED uploadVars
    \/ ExtractionReturns
    \/ ExtractionThrows
    \/ handleReset

SpecUpload == InitUpload /\ [][NextUpload]_vars

\* handleFileChange after await extractResumeData, together with the mount of
\* ResumePreview that the REVIEW view brings (key={fileName}): the state of
\* the new instance is initial, `checks` counts its checks, and a promise that
\* the instance before it left in flight stays in flight.
ReviewMounts ==
    /\ upload.active
    /\ call[1].pc = "returned"
    /\ resumeData' = call[1].result
    /\ appState' = "REVIEW"
    /\ upload' = [upload EXCEPT !.active = FALSE]
    /\ data' \in SessionRecords
    /\ held' = data'
    /\ issues' = <<>>
    /\ \E n \in ExtractionCounts : changeLog' = ExtractionLog(n, now)
    /\ isChecking' = FALSE
    /\ pending' = NoCall
    /\ checks' = 0
    /\ hist' = <<>>
    /\ orphans' = IF pending.active THEN orphans + 1 ELSE orphans
    /\ UNCHANGED <<errorMsg, now, props, rendered, rotationVars>>

\* The promise of an unmounted instance settles: the setIssues and
\* setIsChecking of its handleCheckGrammar reach no mounted state.
OrphanSettles ==
    /\ orphans > 0
    /\ orphans' = orphans - 1
    /\ UNCHANGED <<data, issues, changeLog, isChecking, pending, checks, now, held, hist,
                   props, rendered, rotationVars, uploadVars>>

\* The App with its review session: uploads, resets, and the handlers of the
\* mounted ResumePreview.  The controls of ResumePreview exist in REVIEW only;
\* a promise settles whenever the model responds.
NextApp ==
    \/ \E file \in {File("text", <<"a">>), File("unsupported", <<>>)} :
          handleFileChange(file)
    \/ /\ \E response \in ExtractionResponses :
             /\ IF Len(response.functionCalls) = 0 THEN TRUE
                ELSE /\ response.functionCalls[1].name = "save_resume_data"
                     /\ response.functionCalls[1].args.contactInfo = "null"
             /\ ExtractionResponds(1, response)
       /\ UNCHANGED uploadVars
    \/ ReviewMounts
    \/ ExtractionThrows
    \/ handleReset
    \/ appState = "REVIEW" /\ handleCheckGrammar
    \/ \E response \in GrammarResponses : GrammarResponds(response)
    \/ OrphanSettles
    \/ appState = "REVIEW" /\ Accept
    \/ appState = "REVIEW" /\ Ignore
    \/ appState = "REVIEW" /\ Undo

SpecApp == InitUpload /\ [][NextApp]_vars

\* The review session with the issues of a grammar check open; `checks`
\* counts the checks started from here on.
InitRecheck ==
    /\ data \in SessionRecords
    /\ issues \in Responses \ {<<>>}
    /\ \E n \in ExtractionCounts : changeLog = ExtractionLog(n, 0)
    /\ isChecking = FALSE
    /\ pending = NoCall
    /\ checks = 0
    /\ now = 0
    /\ held = data
    /\ hist = <<>>
    /\ props = <<>>
    /\ rendered = <<>>
    /\ orphans = 0
    /\ RotationIdle
    /\ UploadIdle

SpecRecheck == InitRecheck /\ [][Next]_vars

\* GrammarHighlighter on every small field, path and list of open issues.
InitHighlight ==
    LET
        \* The paths of rendered fields and of issues, in dot and in bracket form.
        PathTexts ==
            {<<"s", ".", "0">>, <<"s", "[", "0", "]">>, <<"s", ".", "1">>,
             <<"e", "[", "1", "]", ".", "d", "[", "1", "0", "]">>,
             <<"e", ".", "1", ".", "d", ".", "1", "0">>, <<"s", "[", "]">>}

        HighlightIssues ==
            {GrammarIssue(id, path, e, << <<"b">> >>, "why") :
                id \in {"i1"}, path \in PathTexts \ {<<"s", ".", "1">>, <<"s", "[", "]">>},
                e \in {<<>>, <<"a">>, <<"b">>, <<"b", "a">>}}
    IN
    /\ props \in [text : {<<>>, <<"a">>, <<"a", "b">>, <<"b", "a">>,
                           <<"a", "b", "a">>, <<"b", "a", "b">>},
                   path : PathTexts,
                   issues : UNION {[1..n -> HighlightIssues] : n \in 0..MaxIssues}]
    /\ rendered = <<>>
    /\ orphans = 0
    /\ data \in {r \in SessionRecords : r["summary.0"] = <<"a", "b">>}
    /\ issues = <<>>
    /\ changeLog = <<>>
    /\ isChecking = FALSE
    /\ pending = NoCall
    /\ checks = 0
    /\ now = 0
    /\ held = data
    /\ hist = <<>>
    /\ RotationIdle
    /\ UploadIdle

NextHighlight == GrammarHighlighter

SpecHighlight == InitHighlight /\ [][NextHighlight]_vars

\* The texts of at most n characters of the alphabet.
TextsOver(alphabet, n) == UNION {[1..k -> alphabet] : k \in 0..n}

\* description.map(cleanText) on one line of the model's answer
CleanLine ==
    /\ props.op = "cleanText"
    /\ rendered = <<>>
    /\ rendered' = <<cleanText(props.text)>>
    /\ UNCHANGED <<props, orphans, data, issues, changeLog, isChecking, pending, checks, now,
                   held, hist, rotationVars, uploadVars>>

\* exp.dates = normalizeDates(exp.dates) on one dates text of the answer
NormalizeDate ==
    /\ props.op = "normalizeDates"
    /\ rendered = <<>>
    /\ rendered' = <<normalizeDates(props.text)>>
    /\ UNCHANGED <<props, orphans, data, issues, changeLog, isChecking, pending, checks, now,
                   held, hist, rotationVars, uploadVars>>

\* The clean-up of one text of the model's answer: every short line of
\* blanks, bullet glyphs and letters, every short dates text of blanks,
\* dashes and letters.
InitText ==
    /\ props \in
          [op : {"cleanText"},
           text : TextsOver({" ", "u2022", "-", "|", "a"}, MaxTextLen)]
          \cup [op : {"normalizeDates"},
                text : TextsOver({" ", "-", "u2013", "u2014", "t", "o", "a"},
                                 MaxTextLen)]
    /\ rendered = <<>>
    /\ orphans = 0
    /\ data = CHOOSE r \in SessionRecords : r["summary.0"] = <<"a", "b">>
    /\ issues = <<>>
    /\ changeLog = <<>>
    /\ isChecking = FALSE
    /\ pending = NoCall
    /\ checks = 0
    /\ now = 0
    /\ held = data
    /\ hist = <<>>
    /\ RotationIdle
    /\ UploadIdle

NextText == CleanLine \/ NormalizeDate

SpecText == InitText /\ [][NextText]_vars

---------------------------------------------------------------------------
(* The three renderers of a reviewed record: the ResumePreview component,   *)
(* generateResumeDoc and generateResumePDF.  A renderer's output is the     *)
(* sequence of its elements from the summary on, in document order: the     *)
(* section headings, the header lines of the entries, the bullets and the   *)
(* items.  Fonts, spacing and the contact block are left out.               *)

Lower == <<"a", "b", "c", "d", "e", "f", "g", "h", "i", "j", "k", "l", "m", "n", "o", "p", "q", "r", "s", "t", "u", "v", "w", "x", "y", "z">>

Upper == <<"A", "B", "C", "D", "E", "F", "G", "H", "I", "J", "K", "L", "M", "N", "O", "P", "Q", "R", "S", "T", "U", "V", "W", "X", "Y", "Z">>

\* [A-Z]
Capitals == {Upper[i] : i \in DOMAIN Upper}

\* \w of the regular expressions
WordChars ==
    Capitals \cup {Lower[i] : i \in DOMAIN Lower}
             \cup {"0", "1", "2", "3", "4", "5", "6", "7", "8", "9", "_"}

\* String.prototype.toUpperCase and toLowerCase
toUpperCase(t) ==
    [k \in DOMAIN t |->
        IF \E i \in DOMAIN Lower : Lower[i] = t[k]
        THEN Upper[CHOOSE i \in DOMAIN Lower : Lower[i] = t[k]]
        ELSE t[k]]

toLowerCase(t) ==
    [k \in DOMAIN t |->
        IF \E i \in DOMAIN Upper : Upper[i] = t[k]
        THEN Lower[CHOOSE i \in DOMAIN Upper : Upper[i] = t[k]]
        ELSE t[k]]

\* String.prototype.split on the one character c: the pieces of t from
\* position start on, k the position being read.
RECURSIVE SplitFrom(_, _, _, _)
SplitFrom(t, c, k, start) ==
    IF k > Len(t) THEN <<SubSeq(t, start, Len(t))>>
    ELSE IF t[k] = c
         THEN <<SubSeq(t, start, k - 1)>> \o SplitFrom(t, c, k + 1, k + 1)
         ELSE SplitFrom(t, c, k + 1, start)

SplitOn(t, c) == SplitFrom(t, c, 1, 1)

\* Array.prototype.join
RECURSIVE Join(_, _)
Join(parts, sep) ==
    IF Len(parts) = 0 THEN <<>>
    ELSE IF Len(parts) = 1 THEN parts[1]
         ELSE parts[1] \o sep \o Join(Tail(parts), sep)

\* The concatenation of a sequence of sequences, Array.prototype.flatMap.
RECURSIVE Flatten(_)
Flatten(lists) == IF Len(lists) = 0 THEN <<>> ELSE lists[1] \o Flatten(Tail(lists))

\* split(' ').map(word => word.charAt(0).toUpperCase()
\*                         + word.slice(1).toLowerCase()).join(' ')
CapitalizeWords(t) ==
    LET words == SplitOn(t, " ")
        Capitalize(word) ==
            IF word = <<>> THEN <<>>
            ELSE toUpperCase(<<word[1]>>) \o toLowerCase(Tail(word))
    IN Join([k \in DOMAIN words |-> Capitalize(words[k])], <<" ">>)

\* The length of the match of /\. (?=[A-Z])|\.$/ that starts at k, 0 when none
\* does: a period followed by a space and a capital letter is matched with
\* its space, a period that ends the text alone.
SentenceEnd(t, k) ==
    IF /\ t[k] = "."
       /\ k + 2 <= Len(t)
       /\ t[k + 1] = " "
       /\ t[k + 2] \in Capitals
    THEN 2
    ELSE IF t[k] = "." /\ k = Len(t) THEN 1 ELSE 0

\* item.split(/\. (?=[A-Z])|\.$/g): the pieces of t between the matches, an
\* empty last piece after a period that ends the text.  The matches start at
\* a period and hold no other, so no two of them overlap.
SplitSentences(t) ==
    LET cuts == {k \in DOMAIN t : SentenceEnd(t, k) > 0}
        nth(j) == CHOOSE k \in cuts : Cardinality({m \in cuts : m < k}) = j - 1
        start(j) == IF j = 1 THEN 1 ELSE nth(j - 1) + SentenceEnd(t, nth(j - 1))
        stop(j) == IF j <= Cardinality(cuts) THEN nth(j) - 1 ELSE Len(t)
    IN [j \in 1..(Cardinality(cuts) + 1) |-> SubSeq(t, start(j), stop(j))]

\* item.includes('.')
HasPeriod(item) == \E k \in DOMAIN item : item[k] = "."

\* trimmed.endsWith('.')
EndsWithPeriod(t) == Len(t) > 0 /\ t[Len(t)] = "."

\* .filter(s => s.trim().length > 0)
NonBlank(s) == Len(Trim(s)) > 0

\* processDescription of ResumePreview; items is an optional list.
processDescriptionPreview(items) ==
    IF ~items.present THEN <<>>
    ELSE Flatten([k \in DOMAIN items.lines |->
            LET item == items.lines[k]
            IN IF Len(item) > 100 /\ HasPeriod(item)
               THEN LET sentences == SelectSeq(SplitSentences(item), NonBlank)
                    IN [j \in DOMAIN sentences |->
                           LET trimmed == Trim(sentences[j])
                           IN IF EndsWithPeriod(trimmed) THEN trimmed
                              ELSE trimmed \o <<".">>]
               ELSE <<item>>])

\* The bullets of one entry of the preview, each with the props its
\* GrammarHighlighter gets: processDescription(items).map((bullet, bIdx) =>
\* ... text={bullet} path={`${section}.${idx}.${field}.${bIdx}`}).
BulletPaths(section, idx, field, items) ==
    LET bullets == processDescriptionPreview(items)
    IN [j \in DOMAIN bullets |->
           [text |-> bullets[j],
            path |-> [section |-> section, idx |-> idx, field |-> field, bIdx |-> j - 1]]]

\* processDescription of generateResumeDoc
processDescriptionDocx(items) ==
    IF ~items.present THEN <<>>
    ELSE Flatten([k \in DOMAIN items.lines |->
            LET item == items.lines[k]
            IN IF Len(item) > 100 /\ HasPeriod(item)
               THEN LET sentences == SelectSeq(SplitSentences(item), NonBlank)
                    IN [j \in DOMAIN sentences |->
                           LET trimmed == Trim(sentences[j])
                           IN IF EndsWithPeriod(trimmed) THEN trimmed
                              ELSE trimmed \o <<".">>]
               ELSE <<item>>])

\* processDescription without the period it appends to a fragment.
processDescriptionPdfBare(items) ==
    IF ~items.present THEN <<>>
    ELSE Flatten([k \in DOMAIN items.lines |->
            LET item == items.lines[k]
            IN IF Len(item) > 100 /\ HasPeriod(item)
               THEN LET sentences == SelectSeq(SplitSentences(item), NonBlank)
                    IN [j \in DOMAIN sentences |-> Trim(sentences[j])]
               ELSE <<item>>])

\* processDescription of generateResumePDF
processDescriptionPdf(items) ==
    IF ~items.present THEN <<>>
    ELSE Flatten([k \in DOMAIN items.lines |->
            LET item == items.lines[k]
            IN IF Len(item) > 100 /\ HasPeriod(item)
               THEN LET sentences == SelectSeq(SplitSentences(item), NonBlank)
                    IN [j \in DOMAIN sentences |->
                           LET trimmed == Trim(sentences[j])
                           IN IF EndsWithPeriod(trimmed) THEN trimmed
                              ELSE trimmed \o <<".">>]
               ELSE <<item>>])

stateMap ==
    <<
       << <<"A", "l", "a", "b", "a", "m", "a">>, <<"A", "L">> >>,
       << <<"A", "l", "a", "s", "k", "a">>, <<"A", "K">> >>,
       << <<"A", "r", "i", "z", "o", "n", "a">>, <<"A", "Z">> >>,
       << <<"A", "r", "k", "a", "n", "s", "a", "s">>, <<"A", "R">> >>,
       << <<"C", "a", "l", "i", "f", "o", "r", "n", "i", "a">>, <<"C", "A">> >>,
       << <<"C", "o", "l", "o", "r", "a", "d", "o">>, <<"C", "O">> >>,
       << <<"C", "o", "n", "n", "e", "c", "t", "i", "c", "u", "t">>, <<"C", "T">> >>,
       << <<"D", "e", "l", "a", "w", "a", "r", "e">>, <<"D", "E">> >>,
       << <<"F", "l", "o", "r", "i", "d", "a">>, <<"F", "L">> >>,
       << <<"G", "e", "o", "r", "g", "i", "a">>, <<"G", "A">> >>,
       << <<"H", "a", "w", "a", "i", "i">>, <<"H", "I">> >>,
       << <<"I", "d", "a", "h", "o">>, <<"I", "D">> >>,
       << <<"I", "l", "l", "i", "n", "o", "i", "s">>, <<"I", "L">> >>,
       << <<"I", "n", "d", "i", "a", "n", "a">>, <<"I", "N">> >>,
       << <<"I", "o", "w", "a">>, <<"I", "A">> >>,
       << <<"K", "a", "n", "s", "a", "s">>, <<"K", "S">> >>,
       << <<"K", "e", "n", "t", "u", "c", "k", "y">>, <<"K", "Y">> >>,
       << <<"L", "o", "u", "i", "s", "i", "a", "n", "a">>, <<"L", "A">> >>,
       << <<"M", "a", "i", "n", "e">>, <<"M", "E">> >>,
       << <<"M", "a", "r", "y", "l", "a", "n", "d">>, <<"M", "D">> >>,
       << <<"M", "a", "s", "s", "a", "c", "h", "u", "s", "e", "t", "t", "s">>, <<"M", "A">> >>,
       << <<"M", "i", "c", "h", "i", "g", "a", "n">>, <<"M", "I">> >>,
       << <<"M", "i", "n", "n", "e", "s", "o", "t", "a">>, <<"M", "N">> >>,
       << <<"M", "i", "s", "s", "i", "s", "s", "i", "p", "p", "i">>, <<"M", "S">> >>,
       << <<"M", "i", "s", "s", "o", "u", "r", "i">>, <<"M", "O">> >>,
       << <<"M", "o", "n", "t", "a", "n", "a">>, <<"M", "T">> >>,
       << <<"N", "e", "b", "r", "a", "s", "k", "a">>, <<"N", "E">> >>,
       << <<"N", "e", "v", "a", "d", "a">>, <<"N", "V">> >>,
       << <<"N", "e", "w", " ", "H", "a", "m", "p", "s", "h", "i", "r", "e">>, <<"N", "H">> >>,
       << <<"N", "e", "w", " ", "J", "e", "r", "s", "e", "y">>, <<"N", "J">> >>,
       << <<"N", "e", "w", " ", "M", "e", "x", "i", "c", "o">>, <<"N", "M">> >>,
       << <<"N", "e", "w", " ", "Y", "o", "r", "k">>, <<"N", "Y">> >>,
       << <<"N", "o", "r", "t", "h", " ", "C", "a", "r", "o", "l", "i", "n", "a">>, <<"N", "C">> >>,
       << <<"N", "o", "r", "t", "h", " ", "D", "a", "k", "o", "t", "a">>, <<"N", "D">> >>,
       << <<"O", "h", "i", "o">>, <<"O", "H">> >>,
       << <<"O", "k", "l", "a", "h", "o", "m", "a">>, <<"O", "K">> >>,
       << <<"O", "r", "e", "g", "o", "n">>, <<"O", "R">> >>,
       << <<"P", "e", "n", "n", "s", "y", "l", "v", "a", "n", "i", "a">>, <<"P", "A">> >>,
       << <<"R", "h", "o", "d", "e", " ", "I", "s", "l", "a", "n", "d">>, <<"R", "I">> >>,
       << <<"S", "o", "u", "t", "h", " ", "C", "a", "r", "o", "l", "i", "n", "a">>, <<"S", "C">> >>,
       << <<"S", "o", "u", "t", "h", " ", "D", "a", "k", "o", "t", "a">>, <<"S", "D">> >>,
       << <<"T", "e", "n", "n", "e", "s", "s", "e", "e">>, <<"T", "N">> >>,
       << <<"T", "e", "x", "a", "s">>, <<"T", "X">> >>,
       << <<"U", "t", "a", "h">>, <<"U", "T">> >>,
       << <<"V", "e", "r", "m", "o", "n", "t">>, <<"V", "T">> >>,
       << <<"V", "i", "r", "g", "i", "n", "i", "a">>, <<"V", "A">> >>,
       << <<"W", "a", "s", "h", "i", "n", "g", "t", "o", "n">>, <<"W", "A">> >>,
       << <<"W", "e", "s", "t", " ", "V", "i", "r", "g", "i", "n", "i", "a">>, <<"W", "V">> >>,
       << <<"W", "i", "s", "c", "o", "n", "s", "i", "n">>, <<"W", "I">> >>,
       << <<"W", "y", "o", "m", "i", "n", "g">>, <<"W", "Y">> >>
    >>

monthMap ==
    <<
       << <<"J", "a", "n">>, <<"J", "a", "n", "u", "a", "r", "y">> >>,
       << <<"F", "e", "b">>, <<"F", "e", "b", "r", "u", "a", "r", "y">> >>,
       << <<"M", "a", "r">>, <<"M", "a", "r", "c", "h">> >>,
       << <<"A", "p", "r">>, <<"A", "p", "r", "i", "l">> >>,
       << <<"M", "a", "y">>, <<"M", "a", "y">> >>,
       << <<"J", "u", "n">>, <<"J", "u", "n", "e">> >>,
       << <<"J", "u", "l">>, <<"J", "u", "l", "y">> >>,
       << <<"A", "u", "g">>, <<"A", "u", "g", "u", "s", "t">> >>,
       << <<"S", "e", "p">>, <<"S", "e", "p", "t", "e", "m", "b", "e", "r">> >>,
       << <<"O", "c", "t">>, <<"O", "c", "t", "o", "b", "e", "r">> >>,
       << <<"N", "o", "v">>, <<"N", "o", "v", "e", "m", "b", "e", "r">> >>,
       << <<"D", "e", "c">>, <<"D", "e", "c", "e", "m", "b", "e", "r">> >>,
       << <<"S", "e", "p", "t">>, <<"S", "e", "p", "t", "e", "m", "b", "e", "r">> >>
    >>

\* formatLocation of ResumePreview: the city is capitalised word by word, a
\* state named in stateMap is abbreviated, any other second part is
\* capitalised when longer than 2 characters and upper-cased otherwise.
formatLocation(loc) ==
    IF loc = <<>> THEN <<>>
    ELSE LET split == SplitOn(loc, ",")
             parts == [k \in DOMAIN split |-> Trim(split[k])]
             state == IF Len(parts) >= 2 THEN parts[2] ELSE <<>>
             found == {i \in DOMAIN stateMap :
                          toLowerCase(stateMap[i][1]) = toLowerCase(state)}
             first == CHOOSE i \in found : \A j \in found : i <= j
         IN Join([k \in DOMAIN parts |->
                     IF k = 1 THEN CapitalizeWords(parts[1])
                     ELSE IF k = 2
                          THEN IF found # {} THEN stateMap[first][2]
                               ELSE IF Len(state) > 2 THEN CapitalizeWords(state)
                                    ELSE toUpperCase(state)
                          ELSE parts[k]],
                 <<",", " ">>)

\* formatted.replace(/\bshort\b/g, monthMap[short]) for every key: each
\* maximal run of word characters that is a key is replaced by its month,
\* from position k.
RECURSIVE ExpandMonthsFrom(_, _)
ExpandMonthsFrom(t, k) ==
    LET MonthOf(word) ==
            IF \E i \in DOMAIN monthMap : monthMap[i][1] = word
            THEN monthMap[CHOOSE i \in DOMAIN monthMap : monthMap[i][1] = word][2]
            ELSE word
    IN IF k > Len(t) THEN <<>>
       ELSE IF t[k] \in WordChars
            THEN LET j == SkipClass(t, k, WordChars)
                 IN MonthOf(SubSeq(t, k, j - 1)) \o ExpandMonthsFrom(t, j)
            ELSE <<t[k]>> \o ExpandMonthsFrom(t, k + 1)

\* formatModernDate, the same text in the preview and in both exporters.
formatModernDate(dateStr) ==
    IF dateStr = <<>> THEN <<>> ELSE ExpandMonthsFrom(dateStr, 1)

\* An entry of the experience or internships list; an absent location is
\* the empty text.
ExperienceEntry(company, title, location, dates, description) ==
    [company |-> company, title |-> title, location |-> location,
     dates |-> dates, description |-> description]

\* An entry of the education list
EducationEntry(institution, degree, location, dates, details) ==
    [institution |-> institution, degree |-> degree, location |-> location,
     dates |-> dates, details |-> details]

\* A custom section; items is an optional list.
CustomEntry(title, items) == [title |-> title, items |-> items]

\* The summary of a record: kind is "absent", "string" (lines holds the one
\* string) or "list".
Summary(kind, lines) == [kind |-> kind, lines |-> lines]

\* The record the renderers read.
ResumeRecord(summary, experience, internships, education, customSections) ==
    [summary |-> summary, experience |-> experience, internships |-> internships,
     education |-> education, customSections |-> customSections]

\* The truthiness of data.summary: an absent summary and the empty string
\* are falsy, every list is truthy.
HasSummary(d) ==
    \/ d.summary.kind = "list"
    \/ d.summary.kind = "string" /\ d.summary.lines[1] # <<>>

\* list && list.length > 0
NonEmpty(list) == list.present /\ Len(list.entries) > 0

\* One element of a renderer's output.  kind is "heading", "summary",
\* "dates", "company", "title", "header" (one line, text on the left and right
\* on the right), "bullet", "item" (an item of a one-column list), "left" or
\* "right" (an item in the first or the second of two columns).
Element(kind, section, text, right) ==
    [kind |-> kind, section |-> section, text |-> text, right |-> right]

Heading(section) == Element("heading", section, <<>>, <<>>)

\* The elements of a list of texts, one of the given kind for each.
Each(kind, section, texts) ==
    [k \in DOMAIN texts |-> Element(kind, section, texts[k], <<>>)]

\* `${name}${location ? `, ${location}` : ''}`
WithLocation(name, location) ==
    IF location # <<>> THEN name \o <<",", " ">> \o location ELSE name

\* MODERN_EXECUTIVE
isModern(format) == format = "MODERN_EXECUTIVE"

\* isGridCandidate && !hasLongItems && section.items: the title names
\* skills, competencies or languages, the items are there and none of them is
\* longer than 60 characters.
useGrid(section) ==
    LET titleUpper == toUpperCase(section.title)
        isGridCandidate ==
            \/ IndexOf(titleUpper, <<"S", "K", "I", "L", "L", "S">>) # 0
            \/ IndexOf(titleUpper, <<"C", "O", "M", "P", "E", "T", "E", "N", "C",
                                     "I", "E", "S">>) # 0
            \/ IndexOf(titleUpper, <<"L", "A", "N", "G", "U", "A", "G", "E", "S">>) # 0
        hasLongItems ==
            /\ section.items.present
            /\ \E k \in DOMAIN section.items.lines : Len(section.items.lines[k]) > 60
    IN isGridCandidate /\ ~hasLongItems /\ section.items.present

\* The block of a section: nothing when the optional list is missing or
\* empty, else the heading and the elements of its entries, blocks[k] those
\* of entry k.
SectionBlock(section, list, blocks) ==
    IF NonEmpty(list) THEN <<Heading(section)>> \o Flatten(blocks) ELSE <<>>

\* The elements the ResumePreview component renders for a record.
ResumePreview(d, format) ==
    LET \* the summary: the heading and the string or the lines
        PreviewSummary ==
            IF HasSummary(d)
            THEN <<Heading("summary")>> \o Each("summary", "summary", d.summary.lines)
            ELSE <<>>
        \* one experience or internship entry
        PreviewJob(section, exp) ==
            (IF isModern(format)
             THEN <<Element("dates", section, formatModernDate(exp.dates), <<>>),
                    Element("company", section,
                            WithLocation(exp.company, formatLocation(exp.location)),
                            <<>>),
                    Element("title", section, exp.title, <<>>)>>
             ELSE <<Element("header", section,
                            WithLocation(exp.company, formatLocation(exp.location)),
                            exp.dates),
                    Element("title", section, exp.title, <<>>)>>)
            \o Each("bullet", section, processDescriptionPreview(exp.description))
        PreviewExperience(exp) == PreviewJob("experience", exp)
        PreviewInternship(exp) == PreviewJob("internships", exp)
        \* one education entry: one layout for both formats
        PreviewEducation(edu) ==
            <<Element("header", "education",
                      WithLocation(edu.institution, formatLocation(edu.location)),
                      edu.dates),
              Element("title", "education", edu.degree, <<>>)>>
            \o (IF edu.details.present /\ Len(edu.details.lines) > 0
                THEN Each("bullet", "education", processDescriptionPreview(edu.details))
                ELSE <<>>)
        \* one custom section: the heading, then the items
        \* (columnCount 2 when useColumns: the browser fills the first column
        \* with the first half of the items, the second with the rest)
        PreviewCustom(section) ==
            LET lines == section.items.lines
                useColumns == useGrid(section) /\ Len(lines) > 2
                half == (Len(lines) + 1) \div 2
            IN <<Heading("custom")>>
               \o (IF ~section.items.present THEN <<>>
                   ELSE IF useColumns
                        THEN Each("left", "custom", SubSeq(lines, 1, half))
                             \o Each("right", "custom",
                                     SubSeq(lines, half + 1, Len(lines)))
                        ELSE Each("item", "custom", lines))
    IN PreviewSummary
       \o SectionBlock("experience", d.experience,
                       [k \in DOMAIN d.experience.entries |->
                           PreviewExperience(d.experience.entries[k])])
       \o SectionBlock("internships", d.internships,
                       [k \in DOMAIN d.internships.entries |->
                           PreviewInternship(d.internships.entries[k])])
       \o SectionBlock("education", d.education,
                       [k \in DOMAIN d.education.entries |->
                           PreviewEducation(d.education.entries[k])])
       \o (IF d.customSections.present
           THEN Flatten([k \in DOMAIN d.customSections.entries |->
                    PreviewCustom(d.customSections.entries[k])])
           ELSE <<>>)

\* createJobHeader: the dates are left out when empty or "undefined".
createJobHeader(section, company, location, dates) ==
    Element("header", section, WithLocation(company, location),
            IF dates # <<>> /\ dates # <<"u", "n", "d", "e", "f", "i", "n", "e", "d">>
            THEN dates ELSE <<>>)

\* The elements generateResumeDoc writes for a record.
generateResumeDoc(d, format) ==
    LET \* the summary
        DocxSummary ==
            IF HasSummary(d)
            THEN <<Heading("summary")>> \o Each("summary", "summary", d.summary.lines)
            ELSE <<>>
        \* the header lines of one entry and its bullets
        DocxEntry(section, name, role, location, dates, lines) ==
            (IF isModern(format)
             THEN <<Element("dates", section, formatModernDate(dates), <<>>),
                    Element("company", section, WithLocation(name, location), <<>>),
                    Element("title", section, role, <<>>)>>
             ELSE <<createJobHeader(section, name, location, dates),
                    Element("title", section, role, <<>>)>>)
            \o Each("bullet", section, lines)
        DocxExperience(exp) ==
            DocxEntry("experience", exp.company, exp.title, exp.location, exp.dates,
                      processDescriptionDocx(exp.description))
        DocxInternship(exp) ==
            DocxEntry("internships", exp.company, exp.title, exp.location, exp.dates,
                      processDescriptionDocx(exp.description))
        DocxEducation(edu) ==
            DocxEntry("education", edu.institution, edu.degree, edu.location, edu.dates,
                      IF edu.details.present /\ Len(edu.details.lines) > 0
                      THEN processDescriptionDocx(edu.details) ELSE <<>>)
        \* one custom section
        \* (createGrid: a row for every two items, the first in the left
        \* cell, the second in the right one)
        DocxCustom(section) ==
            LET lines == section.items.lines
            IN <<Heading("custom")>>
               \o (IF useGrid(section)
                   THEN [k \in DOMAIN lines |->
                            Element(IF k % 2 = 1 THEN "left" ELSE "right", "custom",
                                    lines[k], <<>>)]
                   ELSE IF section.items.present
                        THEN Each("item", "custom", lines)
                        ELSE <<>>)
    IN DocxSummary
       \o SectionBlock("experience", d.experience,
                       [k \in DOMAIN d.experience.entries |->
                           DocxExperience(d.experience.entries[k])])
       \o SectionBlock("internships", d.internships,
                       [k \in DOMAIN d.internships.entries |->
                           DocxInternship(d.internships.entries[k])])
       \o SectionBlock("education", d.education,
                       [k \in DOMAIN d.education.entries |->
                           DocxEducation(d.education.entries[k])])
       \o (IF d.customSections.present
           THEN Flatten([k \in DOMAIN d.customSections.entries |->
                    DocxCustom(d.customSections.entries[k])])
           ELSE <<>>)

\* The elements generateResumePDF writes for a record.
generateResumePDF(d, format) ==
    LET \* the summary
        PdfSummary ==
            IF HasSummary(d)
            THEN <<Heading("summary")>> \o Each("summary", "summary", d.summary.lines)
            ELSE <<>>
        \* one experience or internship entry
        PdfJob(section, exp) ==
            (IF isModern(format)
             THEN <<Element("dates", section, formatModernDate(exp.dates), <<>>),
                    Element("company", section,
                            WithLocation(exp.company, exp.location), <<>>),
                    Element("title", section, exp.title, <<>>)>>
             ELSE <<Element("header", section,
                            WithLocation(exp.company, exp.location), exp.dates),
                    Element("title", section, exp.title, <<>>)>>)
            \o (IF exp.description.present /\ Len(exp.description.lines) > 0
                THEN Each("bullet", section, processDescriptionPdf(exp.description))
                ELSE <<>>)
        PdfExperience(exp) == PdfJob("experience", exp)
        PdfInternship(exp) == PdfJob("internships", exp)
        \* one education entry: one layout for both formats, the dates
        \* expanded in Modern
        PdfEducation(edu) ==
            <<Element("header", "education",
                      WithLocation(edu.institution, edu.location),
                      IF isModern(format) THEN formatModernDate(edu.dates)
                      ELSE edu.dates),
              Element("title", "education", edu.degree, <<>>)>>
            \o (IF edu.details.present /\ Len(edu.details.lines) > 0
                THEN Each("bullet", "education", processDescriptionPdf(edu.details))
                ELSE <<>>)
        \* one custom section
        \* (leftCol takes the items of even index, rightCol the others)
        PdfCustom(section) ==
            LET lines == section.items.lines
                leftCol == [j \in 1..((Len(lines) + 1) \div 2) |-> lines[2 * j - 1]]
                rightCol == [j \in 1..(Len(lines) \div 2) |-> lines[2 * j]]
            IN <<Heading("custom")>>
               \o (IF useGrid(section)
                   THEN Each("left", "custom", leftCol)
                        \o Each("right", "custom", rightCol)
                   ELSE IF section.items.present
                        THEN Each("item", "custom", lines)
                        ELSE <<>>)
    IN PdfSummary
       \o SectionBlock("experience", d.experience,
                       [k \in DOMAIN d.experience.entries |->
                           PdfExperience(d.experience.entries[k])])
       \o SectionBlock("internships", d.internships,
                       [k \in DOMAIN d.internships.entries |->
                           PdfInternship(d.internships.entries[k])])
       \o SectionBlock("education", d.education,
                       [k \in DOMAIN d.education.entries |->
                           PdfEducation(d.education.entries[k])])
       \o (IF d.customSections.present
           THEN Flatten([k \in DOMAIN d.customSections.entries |->
                    PdfCustom(d.customSections.entries[k])])
           ELSE <<>>)

\* The renderers of one screen
Renderers == {"preview", "docx", "pdf"}

\* Nothing rendered yet.
NoOutput == [done |-> {}, preview |-> <<>>, docx |-> <<>>, pdf |-> <<>>]

\* The ResumePreview component renders props.data in props.format.
RenderPreview ==
    /\ "preview" \notin rendered.done
    /\ rendered' = [rendered EXCEPT !.done = @ \cup {"preview"},
                                    !.preview = ResumePreview(props.data, props.format)]
    /\ UNCHANGED <<props, orphans, data, issues, changeLog, isChecking, pending, checks, now,
                   held, hist, rotationVars, uploadVars>>

\* handleDownloadDOCX: generateResumeDoc(data, selectedFormat)
handleDownloadDOCX ==
    /\ "docx" \notin rendered.done
    /\ rendered' = [rendered EXCEPT !.done = @ \cup {"docx"},
                                    !.docx = generateResumeDoc(props.data, props.format)]
    /\ UNCHANGED <<props, orphans, data, issues, changeLog, isChecking, pending, checks, now,
                   held, hist, rotationVars, uploadVars>>

\* handleDownloadPDF: generateResumePDF(data, selectedFormat)
handleDownloadPDF ==
    /\ "pdf" \notin rendered.done
    /\ rendered' = [rendered EXCEPT !.done = @ \cup {"pdf"},
                                    !.pdf = generateResumePDF(props.data, props.format)]
    /\ UNCHANGED <<props, orphans, data, issues, changeLog, isChecking, pending, checks, now,
                   held, hist, rotationVars, uploadVars>>

\* The rendered records: FullRecord with any one of its sections replaced.
RenderRecords ==
    LET
        \* A line of n characters without a period or a blank.
        Pad(n) == [i \in 1..n |-> "x"]

        \* The description lists of the rendered entries: absent, empty, short lines,
        \* and lines of 100 and of 101 characters with and without a place to split.
        RenderLines ==
            {Lines(FALSE, <<>>), Lines(TRUE, <<>>),
             Lines(TRUE, << <<"a", ".", " ", "B", ".">> >>),
             Lines(TRUE, << Pad(96) \o <<".", " ", "B", ".">> >>),
             Lines(TRUE, << Pad(97) \o <<".", " ", "B", ".">> >>),
             Lines(TRUE, << Pad(98) \o <<".", " ", "b">> >>),
             Lines(TRUE, << <<" ">> \o Pad(99) \o <<".", " ">>, Pad(101) >>),
             Lines(TRUE, << Pad(97) \o <<".", " ", "B", ".">>, <<"a">> >>)}

        RenderLocations ==
            {<<>>, <<"A", "d", "a", ",", " ", "O", "H">>,
             <<"a", "d", "a", ",", " ", "o", "h", "i", "o">>}

        RenderDates ==
            {<<>>, <<"2", "0", "2", "0">>, <<"J", "a", "n", " ", "2", "0", "2", "0">>}

        RenderSummaries ==
            {Summary("absent", <<>>), Summary("string", << <<>> >>),
             Summary("string", << <<"a">> >>), Summary("list", <<>>),
             Summary("list", << <<"a">> >>), Summary("list", << <<"a">>, <<"b">> >>)}

        RenderExperience ==
            {Section(FALSE, <<>>), Section(TRUE, <<>>)}
            \cup {Section(TRUE, <<ExperienceEntry(<<"C">>, <<"T">>, l, d, b)>>) :
                     l \in RenderLocations, d \in RenderDates, b \in RenderLines}

        RenderInternships ==
            {Section(FALSE, <<>>), Section(TRUE, <<>>)}
            \cup {Section(TRUE, <<ExperienceEntry(<<"I">>, <<"T">>, l, <<"2", "0", "2", "0">>,
                                                  Lines(TRUE, << <<"a">> >>))>>) :
                     l \in RenderLocations}

        RenderEducation ==
            {Section(FALSE, <<>>), Section(TRUE, <<>>)}
            \cup {Section(TRUE, <<EducationEntry(<<"U">>, <<"D">>, l, d, b)>>) :
                     l \in RenderLocations, d \in RenderDates,
                     b \in {Lines(FALSE, <<>>), Lines(TRUE, <<>>),
                            Lines(TRUE, << Pad(97) \o <<".", " ", "B", ".">> >>)}}

        RenderCustom ==
            {Section(FALSE, <<>>), Section(TRUE, <<>>),
             Section(TRUE, <<CustomEntry(<<"S">>, Lines(FALSE, <<>>))>>),
             Section(TRUE, <<CustomEntry(<<"S">>, Lines(TRUE, <<>>))>>),
             Section(TRUE, <<CustomEntry(<<"S">>, Lines(TRUE, << <<"a">>, <<"b">> >>))>>)}
            \cup {Section(TRUE, <<CustomEntry(t, Lines(TRUE, l))>>) :
                     t \in {<<"S", "k", "i", "l", "l", "s">>, <<"T", "o", "o", "l", "s">>,
                            <<"l", "a", "n", "g", "u", "a", "g", "e", "s", ":">>},
                     l \in {<< <<"a">> >>, << <<"a">>, <<"b">> >>,
                            << <<"a">>, <<"b">>, <<"c">> >>,
                            << <<"a">>, <<"b">>, <<"c">>, <<"d">>, <<"e">>, <<"f">> >>,
                            << <<"a">>, Pad(60), <<"c">> >>,
                            << <<"a">>, Pad(61), <<"c">> >>,
                            << Pad(61) >>}}

        \* A record with one entry in every section.
        FullRecord ==
            ResumeRecord(Summary("list", << <<"a">> >>),
                         Section(TRUE, <<ExperienceEntry(<<"C">>, <<"T">>,
                                            <<"A", "d", "a", ",", " ", "O", "H">>,
                                            <<"2", "0", "2", "0">>,
                                            Lines(TRUE, << <<"a">> >>))>>),
                         Section(TRUE, <<ExperienceEntry(<<"I">>, <<"T">>, <<>>,
                                            <<"2", "0", "2", "0">>,
                                            Lines(TRUE, << <<"a">> >>))>>),
                         Section(TRUE, <<EducationEntry(<<"U">>, <<"D">>, <<>>,
                                            <<"2", "0", "2", "0">>, Lines(FALSE, <<>>))>>),
                         Section(TRUE, <<CustomEntry(<<"S">>, Lines(TRUE, << <<"a">> >>))>>))
    IN
    {[FullRecord EXCEPT !.summary = s] : s \in RenderSummaries}
    \cup {[FullRecord EXCEPT !.experience = e] : e \in RenderExperience}
    \cup {[FullRecord EXCEPT !.internships = e] : e \in RenderInternships}
    \cup {[FullRecord EXCEPT !.education = e] : e \in RenderEducation}
    \cup {[FullRecord EXCEPT !.customSections = c] : c \in RenderCustom}

\* One screen of the review: a record in a format, rendered by the preview
\* and exported to DOCX and to PDF.
InitRender ==
    /\ props \in [data : RenderRecords,
                  format : {"CLASSIC_PROFESSIONAL", "MODERN_EXECUTIVE"}]
    /\ rendered = NoOutput
    /\ orphans = 0
    /\ data = CHOOSE r \in SessionRecords : r["summary.0"] = <<"a", "b">>
    /\ issues = <<>>
    /\ changeLog = <<>>
    /\ isChecking = FALSE
    /\ pending = NoCall
    /\ checks = 0
    /\ now = 0
    /\ held = data
    /\ hist = <<>>
    /\ RotationIdle
    /\ UploadIdle

NextRender ==
    \/ RenderPreview
    \/ handleDownloadDOCX
    \/ handleDownloadPDF

SpecRender == InitRender /\ [][NextRender]_vars

---------------------------------------------------------------------------
(* Claims about accept and undo, checked under SpecEdit.                   *)

\* errorText is a non-empty text and occurs literally in v.
Occurs(errorText, v) ==
    /\ errorText # <<>>
    /\ \E p \in 1..(Len(v) - Len(errorText) + 1) :
          SubSeq(v, p, p + Len(errorText) - 1) = errorText

\* w is v with its first occurrence of errorText, and only that one, replaced
\* by the text s taken literally.
ReplacedFirst(v, errorText, s, w) ==
    \E p \in 1..(Len(v) - Len(errorText) + 1) :
        /\ SubSeq(v, p, p + Len(errorText) - 1) = errorText
        /\ \A q \in 1..(p - 1) : SubSeq(v, q, q + Len(errorText) - 1) # errorText
        /\ w = SubSeq(v, 1, p - 1) \o s \o SubSeq(v, p + Len(errorText), Len(v))

\* The last event is the undo of the entry that the accept right before it
\* created.
UndoOfAccepted ==
    /\ Len(hist) = 2
    /\ hist[1].op = "undo"
    /\ hist[2].op = "accept"
    /\ Len(hist[1].changeLog) = Len(hist[2].changeLog) + 1
    /\ hist[1].log = hist[1].changeLog[1]

\* The accepted issue addressed a string in which its errorText occurred.
Applicable(ev) ==
    /\ IsString(ev.data, ev.issue.path)
    /\ Occurs(ev.issue.errorText, ev.data[ev.issue.path])

\* C1: Accept-then-Undo round trip: after Accept of an open issue whose
\* errorText occurs in the string v at its path, with any chosen suggestion,
\* and an immediate Undo of the entry that this Accept created, the field
\* reads v again and the entry is no longer in the change log.
C1_RoundTrip ==
    (UndoOfAccepted /\ Applicable(hist[2])) =>
        /\ data[hist[2].issue.path] = hist[2].data[hist[2].issue.path]
        /\ \A k \in DOMAIN changeLog : changeLog[k] # hist[1].log

\* C2: when errorText is not found in the current value at the issue's path,
\* Accept leaves the content of the record as it was, and so does a later Undo
\* of an entry that this Accept produced.
C2_StaleIsNoOp ==
    /\ (LastIs("accept") /\ ~Applicable(hist[1])) => data = hist[1].data
    /\ (UndoOfAccepted /\ ~Applicable(hist[2])) => data = hist[1].data

\* C3: when the path does not resolve to a string, or errorText does not
\* occur in the value at the path, Accept appends no entry to the change log
\* and leaves the record as it was; only the issue leaves the open list.
C3_AcceptNoOp ==
    (LastIs("accept") /\ ~Applicable(hist[1])) =>
        /\ changeLog = hist[1].changeLog
        /\ data = hist[1].data
        /\ \A k \in DOMAIN issues : issues[k].id # hist[1].issue.id

\* C4: when errorText occurs in the string v at the issue's path, Accept with
\* the chosen suggestion commits a record that differs from the one before
\* only at that path, where the first occurrence of errorText, and only it, is
\* replaced by the chosen suggestion; it adds one entry to the change log with
\* the issue's path, errorText, the chosen suggestion and the issue's reason;
\* and the issue leaves the open list.
C4_AcceptPost ==
    (LastIs("accept") /\ Applicable(hist[1])) =>
        LET ev == hist[1]
            path == ev.issue.path
            chosen == ev.issue.suggestions[1]
        IN /\ \A p \in StringPaths \ {path} : data[p] = ev.data[p]
           /\ ReplacedFirst(ev.data[path], ev.issue.errorText, chosen, data[path])
           /\ Len(changeLog) = Len(ev.changeLog) + 1
           /\ Tail(changeLog) = ev.changeLog
           /\ changeLog[1].path = path
           /\ changeLog[1].original = ev.issue.errorText
           /\ changeLog[1].new = chosen
           /\ changeLog[1].reason = ev.issue.reason
           /\ \A k \in DOMAIN issues : issues[k].id # ev.issue.id

---------------------------------------------------------------------------
(* Claims about the rotation layer, checked under SpecRot.                 *)

NoKeys == env.process = "" /\ \A k \in 1..4 : env.vite[k] = ""

Ended(frame) == frame.pc \in {"threw", "returned"}

\* C5: with a non-empty pool, a call whose every attempt fails with a
\* rate-limit error invokes the operation exactly 3 times and then fails with
\* the rate-limit-exhausted error; no call invokes it more than 3 times.
C5_ThreeAttempts ==
    \A c \in Slots :
        /\ Len(call[c].attempts) <= 3
        /\ (/\ Ended(call[c])
            /\ call[c].attempts # <<>>
            /\ call[c].signals = Len(call[c].attempts)) =>
               /\ call[c].pc = "threw"
               /\ call[c].thrown = ExhaustedError
               /\ Len(call[c].attempts) = 3

\* A call over a pool of two keys met three rate-limit errors, the third on the
\* second model, and threw the exhaustion error.
C5_Witness ==
    \E c \in Slots :
        /\ call[c].thrown = ExhaustedError
        /\ call[c].signals = 3
        /\ Len(getKeyPool) = 2
        /\ call[c].attempts[3].modelId = 2

\* C6: with no key configured, a call fails with the configuration error, the
\* operation is never invoked and the cursor stays where it was.
C6_EmptyPool ==
    NoKeys =>
        /\ currentKeyIndex = 0
        /\ \A c \in Slots :
              /\ call[c].attempts = <<>>
              /\ call[c].pc \in {"idle", "threw"}
              /\ call[c].pc = "threw" => call[c].thrown = ConfigError

C6_Witness == NoKeys /\ \A c \in Slots : call[c].pc = "threw"

\* C7: when an attempt fails with an error that is not a rate-limit signal,
\* the call throws that same error at once: no further attempt is made, and
\* the failure does not move the cursor.
C7_OtherErrorRethrown ==
    [][\A c \in Slots : \A error \in OperationErrors \ RateLimitSignals :
          OperationRejects(c, error) =>
              /\ call'[c].pc = "threw"
              /\ call'[c].thrown = error
              /\ call'[c].attempts = call[c].attempts
              /\ currentKeyIndex' = currentKeyIndex]_vars

\* A call threw a non-rate-limit error on its second attempt, on a key other
\* than the first.
C7_Witness ==
    \E c \in Slots :
        /\ call[c].pc = "threw"
        /\ call[c].thrown \in OperationErrors \ RateLimitSignals
        /\ Len(call[c].attempts) = 2
        /\ call[c].signals = 1
        /\ call[c].apiKey # getKeyPool[1]

\* C8: the cursor is never reset: it counts the rate-limit failures of all
\* calls, so it moves by one on each of them and on nothing else; every
\* attempt uses the key at (cursor mod pool size); the first attempt of a call
\* reads the cursor as the calls before left it, and each next attempt reads a
\* later one.
C8_CursorDiscipline ==
    /\ currentKeyIndex = rateLimited
    /\ \A c \in Slots : \A k \in DOMAIN call[c].attempts :
          /\ call[c].attempts[k].apiKey =
                 getKeyPool[(call[c].attempts[k].index % Len(getKeyPool)) + 1]
          /\ k = 1 => call[c].attempts[k].index = call[c].startIndex
          /\ k > 1 => call[c].attempts[k].index > call[c].attempts[k - 1].index

\* A call that started after three rate-limit failures of an earlier one, over
\* a pool of two keys, started on the second key and rotated to the first.
C8_Witness ==
    \E c \in Slots :
        /\ call[c].startIndex = 3
        /\ Len(getKeyPool) = 2
        /\ Len(call[c].attempts) = 2
        /\ call[c].attempts[1].apiKey = getKeyPool[2]
        /\ call[c].attempts[2].apiKey = getKeyPool[1]

---------------------------------------------------------------------------
(* Claims about ignore and undo, checked under Spec.                       *)

\* C9: after Ignore of an open issue no issue with its id is open, every
\* other issue is still open, and the record and the change log are as they
\* were.
C9_IgnoreOnlyDrops ==
    LastIs("ignore") =>
        /\ \A k \in DOMAIN issues : issues[k].id # hist[1].issue.id
        /\ \A k \in DOMAIN hist[1].issues :
              hist[1].issues[k].id # hist[1].issue.id =>
                  \E j \in DOMAIN issues : issues[j] = hist[1].issues[k]
        /\ data = hist[1].data
        /\ changeLog = hist[1].changeLog

\* The second of two open issues was ignored, with entries in the change log.
C9_Witness ==
    /\ LastIs("ignore")
    /\ Len(hist[1].issues) = 2
    /\ hist[1].issue = hist[1].issues[2]
    /\ Len(issues) = 1
    /\ changeLog # <<>>

\* C10: Undo applied to an entry tagged "Extraction" leaves the record, the
\* change log and the open issues as they were.
C10_ExtractionUndoNoOp ==
    (LastIs("undo") /\ hist[1].log.path = "Extraction") =>
        /\ data = hist[1].data
        /\ changeLog = hist[1].changeLog
        /\ issues = hist[1].issues

\* Undo was applied to an extraction entry right after an accept, with an
\* issue still open.
C10_Witness ==
    /\ Len(hist) = 2
    /\ hist[1].op = "undo"
    /\ hist[1].log.path = "Extraction"
    /\ Len(changeLog) = 3
    /\ issues # <<>>

\* C11: Undo never restores an issue: the open issues are the same before and
\* after every Undo, so the issue that an Accept removed is still not open
\* after the change of that Accept was undone.
C11_UndoKeepsIssues ==
    LastIs("undo") =>
        /\ issues = hist[1].issues
        /\ UndoOfAccepted =>
               \A k \in DOMAIN issues : issues[k].id # hist[2].issue.id

\* The change of an accept was undone, the text is back, and another issue is
\* still open.
C11_Witness ==
    /\ UndoOfAccepted
    /\ Applicable(hist[2])
    /\ data = hist[2].data
    /\ data # hist[1].data
    /\ Len(changeLog) < Len(hist[1].changeLog)
    /\ issues # <<>>

---------------------------------------------------------------------------
(* Claims about the upload pipeline, checked under SpecUpload.             *)

\* The response holds no save_resume_data call.
NoSaveCall(response) ==
    \A k \in DOMAIN response.functionCalls :
        response.functionCalls[k].name # "save_resume_data"

\* C12: when the response of the model to an extraction request holds no
\* save_resume_data call, extractResumeData throws an error and returns no
\* record; the error is not taken for a rate-limit error: no further attempt
\* is made and the cursor stays.
C12_NoToolCallIsFatal ==
    [][\A response \in ExtractionResponses :
          (NoSaveCall(response) /\ ExtractionResponds(1, response)) =>
              /\ call'[1].pc = "threw"
              /\ call'[1].thrown \notin {NoError} \cup RateLimitSignals
              /\ call'[1].result = <<>>
              /\ call'[1].attempts = call[1].attempts
              /\ currentKeyIndex' = currentKeyIndex]_vars

\* With two keys, the second attempt of an extraction got a response without
\* the tool call, and the upload ended in ERROR with the message of that error.
C12_Witness ==
    /\ call[1].pc = "threw"
    /\ call[1].thrown = ToolError
    /\ Len(call[1].attempts) = 2
    /\ Len(getKeyPool) = 2
    /\ appState = "ERROR"
    /\ errorMsg = ToolError.message

\* The last upload has ended and failed: its file was refused, or its
\* extraction call threw.
UploadFailed ==
    /\ upload.count > 0
    /\ ~upload.active
    /\ \/ upload.file.kind = "unsupported"
       \/ upload.file.kind = "docx" /\ Trim(upload.file.text) = <<>>
       \/ /\ upload.file.kind \in {"text", "visual"}
                \/ (upload.file.kind = "docx" /\ Trim(upload.file.text) # <<>>)
          /\ call[1].pc = "threw"

\* C13: an upload that fails (unsupported type, DOCX without text, no tool
\* call, an error that is no rate-limit error, the budget exhausted) ends in
\* ERROR with the record as it was before the upload; for an unsupported type
\* no model call is started.
C13_FailedUploadCommitsNothing ==
    /\ UploadFailed => (appState = "ERROR" /\ resumeData = upload.before)
    /\ (upload.count > 0 /\ upload.file.kind = "unsupported") =>
           started = upload.started

\* The second upload failed on the exhausted budget after a first one failed
\* on its file type.
C13_Witness ==
    /\ UploadFailed
    /\ upload.count = 2
    /\ started = 1
    /\ call[1].thrown = ExhaustedError
    /\ appState = "ERROR"

\* rec is the record of the arguments args after the clean-up: contactInfo an
\* object, a present summary a list, every line cleanText of the model's line,
\* every dates field normalizeDates of the model's value.
Normalized(args, rec) ==
    /\ rec.contactInfo = "object"
    /\ args.summary.kind # "absent" =>
           /\ rec.summary.kind = "list"
           /\ rec.summary.lines = MapCleanText(args.summary.lines)
    /\ \A sec \in {"experience", "internships"} :
           /\ rec[sec].present = args[sec].present
           /\ Len(rec[sec].entries) = Len(args[sec].entries)
           /\ \A k \in DOMAIN args[sec].entries :
                 /\ rec[sec].entries[k].description.present =>
                        rec[sec].entries[k].description.lines =
                            MapCleanText(args[sec].entries[k].description.lines)
                 /\ rec[sec].entries[k].dates.present =>
                        rec[sec].entries[k].dates.text =
                            normalizeDates(args[sec].entries[k].dates.text)
    /\ Len(rec.education.entries) = Len(args.education.entries)
    /\ \A k \in DOMAIN args.education.entries :
           /\ rec.education.entries[k].details.present =>
                  rec.education.entries[k].details.lines =
                      MapCleanText(args.education.entries[k].details.lines)
           /\ rec.education.entries[k].dates.present =>
                  rec.education.entries[k].dates.text =
                      normalizeDates(args.education.entries[k].dates.text)
    /\ Len(rec.customSections.entries) = Len(args.customSections.entries)
    /\ \A k \in DOMAIN args.customSections.entries :
           rec.customSections.entries[k].items.present =>
               rec.customSections.entries[k].items.lines =
                   MapCleanText(args.customSections.entries[k].items.lines)

\* C14: for every response with a save_resume_data call, the record that
\* extractResumeData returns has contactInfo as an object, has summary as a
\* list whenever summary is present, a scalar as a one-element list, has every
\* summary line, bullet, detail and custom item equal to cleanText of the
\* model's line and every dates field equal to normalizeDates of the model's
\* value.
C14_PostExtraction ==
    [][\A response \in ExtractionResponses :
          (~NoSaveCall(response) /\ ExtractionResponds(1, response)) =>
              /\ call'[1].pc = "returned"
              /\ Len(call'[1].result) = 1
              /\ Normalized(response.functionCalls[1].args, call'[1].result[1])]_vars

---------------------------------------------------------------------------
(* Claims about the grammar check and the record, checked under Spec.      *)

\* The issues that the response of the model reports, none when it reports
\* nothing.
ReportedIssues(response) ==
    IF /\ response.functionCalls # <<>>
       /\ response.functionCalls[1].name = "save_grammar_issues"
       /\ response.functionCalls[1].args.present
    THEN response.functionCalls[1].args.issues
    ELSE <<>>

\* C15: a grammar analysis that finds no issue returns the empty list and
\* raises no error, while a failed call raises; the caller installs the list
\* returned, empty or not, as the open issues, and on a failure leaves the
\* open issues as they were.
C15_EmptyIsNotFailure ==
    [][/\ \A response \in GrammarResponses :
             GrammarResponds(response) =>
                 /\ issues' = ReportedIssues(response)
                 /\ pending'.alert # FailedAlert
                 /\ ReportedIssues(response) = <<>> => pending'.alert = NoIssuesAlert
       /\ CheckGrammarFails =>
             /\ issues' = issues
             /\ pending'.alert = FailedAlert]_vars

\* A grammar check ended with no issue found: the list is empty and the alert
\* is not the one of a failure.
C15_Witness ==
    /\ checks > 0
    /\ ~isChecking
    /\ ~pending.active
    /\ pending.alert = NoIssuesAlert
    /\ issues = <<>>

\* The path that the last handler event addressed.
LastPath == IF hist[1].op = "undo" THEN hist[1].log.path ELSE hist[1].issue.path

\* C16: Accept and Undo never write into the record that is current when they
\* are called: that record reads afterwards as it did before, and the record
\* committed is complete, equal to the one before at every path but the one
\* addressed.
C16_CopyOnWrite ==
    (LastIs("accept") \/ LastIs("undo")) =>
        /\ held = hist[1].data
        /\ DOMAIN data = DOMAIN hist[1].data
        /\ \A p \in DOMAIN data \ {LastPath} : data[p] = hist[1].data[p]

\* An accept committed a record that differs from the one it was given, and
\* the one it was given still reads as before.
C16_Witness ==
    /\ LastIs("accept")
    /\ data # hist[1].data
    /\ held = hist[1].data
    /\ held # data

---------------------------------------------------------------------------
(* Claims about the highlighter, checked under SpecHighlight.              *)

\* errorText is found in text at offset o, counted from 0, and at no smaller
\* offset; the empty text is found at offset 0.
FirstOffset(text, errorText, o) ==
    /\ o \in 0..(Len(text) - Len(errorText))
    /\ SubSeq(text, o + 1, o + Len(errorText)) = errorText
    /\ \A q \in 0..(o - 1) : SubSeq(text, q + 1, q + Len(errorText)) # errorText

\* The k-th open issue addresses the rendered field and is found in its text.
Shown(k) ==
    /\ normalizePath(props.issues[k].path) = normalizePath(props.path)
    /\ \E o \in 0..Len(props.text) : FirstOffset(props.text, props.issues[k].errorText, o)

\* C17: for a rendered field with path P and text T, the highlighted issues
\* are exactly the open issues whose path equals P after both are normalized
\* and whose errorText occurs in T; the others are left out; the highlighted
\* ones are in ascending order of the offset of the first occurrence of their
\* errorText in T.
C17_HighlightedIssues ==
    rendered # <<>> =>
        LET list == rendered[1]
        IN /\ Len(list) = Cardinality({k \in DOMAIN props.issues : Shown(k)})
           /\ \A k \in DOMAIN props.issues :
                 Shown(k) <=> \E j \in DOMAIN list : list[j].issue = props.issues[k]
           /\ \A j \in DOMAIN list :
                 /\ \E k \in DOMAIN props.issues :
                       Shown(k) /\ list[j].issue = props.issues[k]
                 /\ FirstOffset(props.text, list[j].issue.errorText, list[j].index)
                 /\ j > 1 => list[j - 1].index <= list[j].index

\* Two issues on the field, one written with a bracket index and one with a
\* dot, are highlighted in the order of their offsets, which is not the order
\* of the list.
C17_Witness ==
    /\ rendered # <<>>
    /\ Len(props.issues) = 2
    /\ props.issues[1].path # props.issues[2].path
    /\ props.path = <<"e", "[", "1", "]", ".", "d", "[", "1", "0", "]">>
    /\ Len(rendered[1]) = 2
    /\ rendered[1][1].issue = props.issues[2]
    /\ rendered[1][1].index < rendered[1][2].index

---------------------------------------------------------------------------
(* Claims about the renderers, checked under SpecRender.                   *)

IsBullet(e) == e.kind = "bullet"

\* The bullets of an output, in order.
Bullets(out) == SelectSeq(out, IsBullet)

\* Every description and details list of the record d.
DescriptionLists(d) ==
    {d.experience.entries[k].description : k \in DOMAIN d.experience.entries}
    \cup {d.internships.entries[k].description : k \in DOMAIN d.internships.entries}
    \cup {d.education.entries[k].details : k \in DOMAIN d.education.entries}

\* t holds a period followed by a space and a capital letter.
HasSplitPoint(t) ==
    \E k \in 1..(Len(t) - 2) :
        t[k] = "." /\ t[k + 1] = " " /\ t[k + 2] \in Capitals

\* out is a segmentation of the one line: the line itself unless it is
\* longer than 100 characters and holds a period, and then fragments that end
\* in a period and hold no place to split.
Segmented(line, out) ==
    IF Len(line) > 100 /\ HasPeriod(line)
    THEN \A j \in DOMAIN out : EndsWithPeriod(out[j]) /\ ~HasSplitPoint(out[j])
    ELSE out = <<line>>

\* C18: the preview, the DOCX export and the PDF export of a record show the
\* same bullets in the same order, and each of the three segments a line the
\* same way: a line of more than 100 characters that holds a period becomes
\* fragments ending in a period, cut at every period followed by a space and
\* a capital letter and at a trailing period, and every other line is kept
\* as it is.
C18_SameSegmentation ==
    /\ \A r1 \in rendered.done : \A r2 \in rendered.done :
          Bullets(rendered[r1]) = Bullets(rendered[r2])
    /\ rendered.done = Renderers =>
          \A items \in DescriptionLists(props.data) :
             /\ processDescriptionPreview(items) = processDescriptionDocx(items)
             /\ processDescriptionDocx(items) = processDescriptionPdf(items)
             /\ \A k \in DOMAIN items.lines :
                   LET line == Lines(TRUE, <<items.lines[k]>>)
                   IN /\ Segmented(items.lines[k], processDescriptionPreview(line))
                      /\ Segmented(items.lines[k], processDescriptionDocx(line))
                      /\ Segmented(items.lines[k], processDescriptionPdf(line))

\* The three renderers have run on a record with a line that was split in
\* two bullets.
C18_Witness ==
    /\ rendered.done = Renderers
    /\ \E items \in DescriptionLists(props.data) :
          /\ items.present
          /\ Len(processDescriptionPdf(items)) > Len(items.lines)
    /\ Len(Bullets(rendered.preview)) >= 2
    /\ Len(Bullets(rendered.pdf)) >= 2

IsHeaderLine(e) == e.kind \in {"dates", "company", "title", "header"}

\* The header lines of the entries of an output, in order.
HeaderLines(out) == SelectSeq(out, IsHeaderLine)

\* C19: the preview, the DOCX export and the PDF export of a record in a
\* format show, for every experience, internship and education entry, the
\* same header lines in the same order with the same location and the same
\* dates: the company and location with the dates and then the title in
\* Classic, the dates, the company and location and the title in Modern.
C19_ExportsConsistent ==
    \A r1 \in rendered.done : \A r2 \in rendered.done :
        HeaderLines(rendered[r1]) = HeaderLines(rendered[r2])

\* C20: in every renderer a section heading is followed by content of its
\* section: no heading ends the output or is followed by the next heading.
C20_NoEmptyHeadings ==
    \A r \in rendered.done :
        \A k \in DOMAIN rendered[r] :
            rendered[r][k].kind = "heading" =>
                /\ k < Len(rendered[r])
                /\ rendered[r][k + 1].kind # "heading"
                /\ rendered[r][k + 1].section = rendered[r][k].section

---------------------------------------------------------------------------
(* Claims about the text clean-up, checked under SpecText.                 *)

\* C22: cleaning a cleaned line changes nothing: cleanText of the cleaned
\* line is the cleaned line, for every line, also one that starts with a run
\* of blanks and bullet glyphs.
C22_CleanTextIdempotent ==
    (props.op = "cleanText" /\ rendered # <<>>) =>
        /\ rendered[1] = cleanText(props.text)
        /\ cleanText(rendered[1]) = rendered[1]

\* A line that starts with a run of several glyphs and blanks was cleaned
\* down to its text.
C22_Witness ==
    /\ props.op = "cleanText"
    /\ rendered # <<>>
    /\ Len(props.text) >= 3
    /\ props.text[1] = "u2022" /\ props.text[2] \in BulletClass
    /\ rendered[1] # <<>>
    /\ rendered[1] # props.text

\* t holds the word "to" between blanks, or a hyphen, en-dash or em-dash.
HasRange(t) ==
    \/ \E k \in DOMAIN t : t[k] \in DashClass
    \/ \E k \in 2..(Len(t) - 2) :
          /\ t[k - 1] \in Whitespace
          /\ t[k] \in {"t", "T"} /\ t[k + 1] \in {"o", "O"}
          /\ t[k + 2] \in Whitespace

\* t holds the word "to" on its own.
HasWordTo(t) ==
    \E k \in 1..(Len(t) - 1) :
        /\ t[k] \in {"t", "T"} /\ t[k + 1] \in {"o", "O"}
        /\ (k = 1 \/ t[k - 1] \notin WordChars)
        /\ (k + 1 = Len(t) \/ t[k + 2] \notin WordChars)

\* The hyphen at k of t is the middle of one " - ": one blank on each side.
IsSeparator(t, k) ==
    /\ k > 1 /\ t[k - 1] = " " /\ (k = 2 \/ t[k - 2] # " ")
    /\ k < Len(t) /\ t[k + 1] = " " /\ (k + 1 = Len(t) \/ t[k + 2] # " ")

\* C23: the normalised form of a dates text that holds the word "to" between
\* blanks or any dash holds no en-dash, no em-dash and no word "to", and
\* each of its hyphens is the middle of one " - " separator.
C23_OnlyHyphenSeparator ==
    (props.op = "normalizeDates" /\ rendered # <<>> /\ HasRange(props.text)) =>
        /\ \A k \in DOMAIN rendered[1] :
              /\ rendered[1][k] \notin {"u2013", "u2014"}
              /\ rendered[1][k] = "-" => IsSeparator(rendered[1], k)
        /\ ~HasWordTo(rendered[1])

---------------------------------------------------------------------------
(* Claims about the custom sections, checked under SpecRender.             *)

\* The elements of kind kind in the custom sections of an output.
CustomItems(out, kind) ==
    LET Is(e) == e.section = "custom" /\ e.kind = kind
    IN SelectSeq(out, Is)

\* The title names skills, competencies or languages.
NamesSkills(title) ==
    \E w \in {<<"S", "K", "I", "L", "L", "S">>,
              <<"C", "O", "M", "P", "E", "T", "E", "N", "C", "I", "E", "S">>,
              <<"L", "A", "N", "G", "U", "A", "G", "E", "S">>} :
        \E p \in 1..Len(title) : OccursAt(toUpperCase(title), w, p)

\* C21: in each renderer the items of a one-section record whose custom
\* section names skills, competencies or languages stand in 2 columns when
\* none of them is longer than 60 characters, n items as (n + 1) \div 2 and
\* n \div 2 (6 items as 3 and 3), and in one column when any of them is
\* longer than 60 characters.
C21_GridRule ==
    \A r \in rendered.done :
        \A section \in {props.data.customSections.entries[k] :
                           k \in DOMAIN props.data.customSections.entries} :
            (/\ props.data.customSections.present
             /\ Len(props.data.customSections.entries) = 1
             /\ section.items.present
             /\ NamesSkills(section.title)) =>
                LET lines == section.items.lines
                    n == Len(lines)
                IN IF \E k \in DOMAIN lines : Len(lines[k]) > 60
                   THEN /\ Len(CustomItems(rendered[r], "item")) = n
                        /\ Len(CustomItems(rendered[r], "left")) = 0
                        /\ Len(CustomItems(rendered[r], "right")) = 0
                   ELSE /\ Len(CustomItems(rendered[r], "item")) = 0
                        /\ Len(CustomItems(rendered[r], "left")) = (n + 1) \div 2
                        /\ Len(CustomItems(rendered[r], "right")) = n \div 2

---------------------------------------------------------------------------
(* Claims about the order of models and keys, checked under SpecRot.       *)

\* The keys a call has tried on the model modelId.
KeysTried(frame, modelId) ==
    {frame.attempts[k].apiKey :
        k \in {j \in DOMAIN frame.attempts : frame.attempts[j].modelId = modelId}}

\* Every key of the pool
PoolKeys == {getKeyPool[k] : k \in DOMAIN getKeyPool}

\* C26: a call tries the models in their order, one after the other; it goes
\* on to the next model only when it has tried every key of the pool once on
\* the model it leaves; and it throws the exhaustion error only when it has
\* tried every key of the pool on the first model.
C26_ModelThenKeyOrder ==
    \A c \in Slots :
        /\ \A k \in DOMAIN call[c].attempts :
              /\ k = 1 => call[c].attempts[k].modelId = 1
              /\ k > 1 =>
                    \/ call[c].attempts[k].modelId = call[c].attempts[k - 1].modelId
                    \/ /\ call[c].attempts[k].modelId
                             = call[c].attempts[k - 1].modelId + 1
                       /\ KeysTried(call[c], call[c].attempts[k - 1].modelId) = PoolKeys
                       /\ Cardinality({j \in 1..(k - 1) :
                              call[c].attempts[j].modelId
                                  = call[c].attempts[k - 1].modelId})
                             = Len(getKeyPool)
        /\ (call[c].pc = "threw" /\ call[c].thrown = ExhaustedError) =>
              KeysTried(call[c], 1) = PoolKeys

\* C30: with two or more keys in the pool, also when calls overlap and move
\* the one cursor, the attempt a call makes after a rate-limit failure uses
\* another key than the attempt that failed.
C30_RotatesAwayFromLimitedKey ==
    Len(getKeyPool) >= 2 =>
        \A c \in Slots : \A k \in DOMAIN call[c].attempts :
            k > 1 => call[c].attempts[k].apiKey # call[c].attempts[k - 1].apiKey

\* C27: an upload whose file is of a text-bearing kind (DOCX, or plain
\* text/markdown/rtf) and whose decoded text is empty or whitespace-only never
\* reaches REVIEW and commits no record: once it has ended the App is in ERROR
\* with the record as it was before the upload.
C27_NoTextIsFatal ==
    (/\ upload.count > 0
     /\ upload.file.kind \in {"docx", "text"}
     /\ Trim(upload.file.text) = <<>>) =>
        /\ appState # "REVIEW"
        /\ resumeData = upload.before
        /\ ~upload.active => appState = "ERROR"

\* The list without its k-th entry.
RemoveAt(list, k) == SubText(list, 1, k - 1) \o SubText(list, k + 1, Len(list))

\* C29: an Undo of a grammar entry takes exactly that one entry out of the
\* modification log (or leaves the log as it is when the undo does not
\* apply): every other entry, grammar or Extraction, stays, in the same
\* order, also when two Accepts read the same Date.now().
C29_UndoRemovesOneEntry ==
    (LastIs("undo") /\ hist[1].log.path # "Extraction") =>
        \/ changeLog = hist[1].changeLog
        \/ \E k \in DOMAIN hist[1].changeLog :
              /\ hist[1].changeLog[k] = hist[1].log
              /\ changeLog = RemoveAt(hist[1].changeLog, k)

\* The position, counted from 0, of the line of items from which the j-th
\* bullet of the preview was taken: the first line up to which the list
\* yields at least j bullets.
Origin(items, j) ==
    CHOOSE k \in 0..(Len(items.lines) - 1) :
        /\ Len(processDescriptionPreview(Lines(TRUE, SubText(items.lines, 1, k + 1)))) >= j
        /\ Len(processDescriptionPreview(Lines(TRUE, SubText(items.lines, 1, k)))) < j

\* The bullets of the preview of the record d, with the field of d each was
\* taken from.
PreviewBullets(d) ==
    UNION {{[bullet |-> BulletPaths("experience", k - 1, "description",
                            d.experience.entries[k].description)[j],
             from |-> [section |-> "experience", idx |-> k - 1, field |-> "description",
                       bIdx |-> Origin(d.experience.entries[k].description, j)]] :
            j \in DOMAIN BulletPaths("experience", k - 1, "description",
                             d.experience.entries[k].description)} :
           k \in DOMAIN d.experience.entries}
    \cup
    UNION {{[bullet |-> BulletPaths("education", k - 1, "details",
                            d.education.entries[k].details)[j],
             from |-> [section |-> "education", idx |-> k - 1, field |-> "details",
                       bIdx |-> Origin(d.education.entries[k].details, j)]] :
            j \in DOMAIN BulletPaths("education", k - 1, "details",
                             d.education.entries[k].details)} :
           k \in DOMAIN d.education.entries}

\* C28: every bullet of the preview gives its highlighter the path of the
\* record field from which its text was taken, also when a long line is split
\* into several bullets, so that an issue is highlighted only inside the value
\* of the field at the issue's own path.
C28_HighlightOnOwnField ==
    "preview" \in rendered.done =>
        \A b \in PreviewBullets(props.data) : b.bullet.path = b.from

\* The analyzeGrammar promises in flight: the one of the mounted instance and
\* those of unmounted ones.
GrammarInFlight == (IF pending.active THEN 1 ELSE 0) + orphans

\* The extractResumeData calls in flight.
ExtractionInFlight == IF upload.active THEN 1 ELSE 0

\* C24: over any sequence of uploads, grammar checks and resets at most one
\* extraction call and at most one grammar-analysis call is in flight at any
\* time.
C24_SingleOutstandingCall ==
    /\ ExtractionInFlight <= 1
    /\ upload.active => appState = "PROCESSING"
    /\ GrammarInFlight <= 1

\* C25: no Accept, Ignore or Undo is committed while a grammar-analysis call
\* is in flight, so the record an analysis was computed from is the current
\* record when its result is installed as the open issue list.
C25_SerializedWithGrammarCall ==
    [][/\ ~(pending.active /\ hist' # hist /\ hist' # <<>>)
       /\ (pending.active /\ ~pending'.active /\ issues' # issues) => pending.data = data]_vars

=============================================================================
